---- MODULE Spec2Model ----
(***************************************************************************)
(* Model of the ant-colony simulation engine of Kyagoat/study_ants:        *)
(* Tile / Grid (tile.rs, grid.rs), Ant (ant.rs), PheromoneMap              *)
(* (pheromone.rs), AntsGameManager (ants_game_manager.rs), MapEditor       *)
(* (map_editor.rs) and the screens of Interface (interface.rs).            *)
(*                                                                         *)
(* Numbers.  Every f32 of the program (Q-values, deltas, rewards, alpha,   *)
(* gamma, epsilon, evaporation rate) is the integer its IEEE-754 bits give *)
(* when read as sign and magnitude: for exponent field e and fraction      *)
(* field f the value (1 + f / 2^23) x 2^(e - 127) is e x 2^23 + f, a       *)
(* subnormal f x 2^-149 is f, an infinity is 255 x 2^23, the negative of   *)
(* a value is the negated integer and both zeros are 0.  The order of      *)
(* these integers is the order of the f32 values, and abs and negation     *)
(* are those of the integers.  The integers above 255 x 2^23 are the NaNs; *)
(* the operations give the one value NaN, and a comparison with a NaN is   *)
(* false (FLt).  FAdd, FSub and FMul are the f32 operations with           *)
(* round-to-nearest-even.  F32Of(n, d) is the f32 nearest to n / d, as a   *)
(* literal of the source is read: F32Of(1, 10) is 0.1.                     *)
(* u32 / usize values are naturals.  Option<(u32,u32)> is a sequence:      *)
(* <<>> is None and <<x, y>> is Some((x, y)).                              *)
(***************************************************************************)
EXTENDS Integers, Sequences, FiniteSets, TLC

\* ------------------------------------------------------------------------
\* f32 arithmetic
\* ------------------------------------------------------------------------

\* 2^n for n in 0..30
Pow2(n) ==
    <<1, 2, 4, 8, 16, 32, 64, 128, 256, 512, 1024, 2048, 4096, 8192, 16384, 32768,
      65536, 131072, 262144, 524288, 1048576, 2097152, 4194304, 8388608, 16777216,
      33554432, 67108864, 134217728, 268435456, 536870912, 1073741824>>[n + 1]

\* the f32 of exponent field e and fraction field f, positive
F32(e, f) == e * Pow2(23) + f

Abs(v) == IF v < 0 THEN 0 - v ELSE v

Sign(v) == IF v < 0 THEN 0 - 1 ELSE 1

\* -f32::INFINITY
NegInfinity == 0 - F32(255, 0)

\* the NaN an invalid operation gives; every NaN is read as this one
NaN == F32(255, Pow2(22))

IsNaN(v) == Abs(v) > F32(255, 0)

\* a < b on f32, which is false when either side is NaN
FLt(a, b) == a < b /\ ~IsNaN(a) /\ ~IsNaN(b)

\* the exponent and the 24-bit significand of a nonzero finite f32, whose
\* magnitude is SignificandOf x 2^(ExponentOf - 150): the exponent field
\* and the fraction under its implicit bit, or for a subnormal the fraction
\* shifted left until bit 23 is set, the exponent going below 1 by as much
ExponentOf(v) ==
    IF Abs(v) >= Pow2(23) THEN Abs(v) \div Pow2(23)
    ELSE 1 - (CHOOSE n \in 1..23 : Abs(v) * Pow2(n) >= Pow2(23)
                                   /\ Abs(v) * Pow2(n - 1) < Pow2(23))

SignificandOf(v) ==
    IF Abs(v) >= Pow2(23) THEN (Abs(v) % Pow2(23)) + Pow2(23)
    ELSE Abs(v) * Pow2(1 - ExponentOf(v))

\* v shifted right by d bits, a lost 1 kept in the lowest bit
ShiftRightSticky(v, d) ==
    IF d >= 27 THEN 1
    ELSE IF v % Pow2(d) # 0 /\ (v \div Pow2(d)) % 2 = 0 THEN v \div Pow2(d) + 1
    ELSE v \div Pow2(d)

\* the f32 of sign s, exponent e and significand kept, which carries two
\* more bits than the 24 it keeps: round to nearest, ties to the even
\* significand.  Below the normal range (e < 1) the significand is the
\* fraction of a subnormal; at exponent 255 and above the result is an
\* infinity
RoundKept(s, e, kept) ==
    LET m == IF kept % 4 = 3 \/ (kept % 4 = 2 /\ (kept \div 4) % 2 = 1)
             THEN kept \div 4 + 1 ELSE kept \div 4
    IN  IF e >= 255 THEN s * F32(255, 0)
        ELSE IF e >= 1 /\ F32(e - 1, m) >= F32(255, 0) THEN s * F32(255, 0)
        ELSE IF e >= 1 THEN s * F32(e - 1, m)
        ELSE s * m

\* the f32 of sign s and of magnitude (mant + rem / (2 x half)) x
\* 2^(e - 150), mant being a 24-bit significand and rem the discarded part,
\* of which half is the midpoint.  Below the normal range (e < 1) the
\* significand loses 1 - e more bits before it is rounded
RoundPack(s, e, mant, rem, half) ==
    LET guard == IF rem = 0 THEN 0
                 ELSE IF rem < half THEN 1
                 ELSE IF rem = half THEN 2 ELSE 3
    IN  RoundKept(s, e, IF e >= 1 THEN mant * 4 + guard
                        ELSE ShiftRightSticky(mant * 4 + guard, 1 - e))

\* the f32 of sign s whose magnitude is the product of the significands ma
\* and mb x 2^(e - 277): the 48-bit product is formed from their 12-bit
\* halves so that no intermediate leaves 32 bits, then rounded
MulSignificands(s, e, ma, mb) ==
    LET mid == (ma \div Pow2(12)) * (mb % Pow2(12))
               + (ma % Pow2(12)) * (mb \div Pow2(12))
        low == (mid % Pow2(12)) * Pow2(12) + (ma % Pow2(12)) * (mb % Pow2(12))
        hi == (ma \div Pow2(12)) * (mb \div Pow2(12)) + mid \div Pow2(12)
              + low \div Pow2(24)
    IN  IF hi >= Pow2(23)
        THEN RoundPack(s, e - 126, hi, low % Pow2(24), Pow2(23))
        ELSE RoundPack(s, e - 127, hi * 2 + (low % Pow2(24)) \div Pow2(23),
                       low % Pow2(23), Pow2(22))

\* a * b on f32: NaN for a NaN operand and for 0 x infinity, an infinity
\* for an infinite operand, else the rounded product of the significands
FMul(a, b) ==
    IF a = 0 \/ b = 0
    THEN IF Abs(a) < F32(255, 0) /\ Abs(b) < F32(255, 0) THEN 0 ELSE NaN
    ELSE IF IsNaN(a) \/ IsNaN(b) THEN NaN
    ELSE IF Abs(a) = F32(255, 0) \/ Abs(b) = F32(255, 0)
         THEN Sign(a) * Sign(b) * F32(255, 0)
    ELSE MulSignificands(Sign(a) * Sign(b), ExponentOf(a) + ExponentOf(b),
                         SignificandOf(a), SignificandOf(b))

\* the f32 of sign s that adding two finite nonzero f32 gives: mb is the
\* significand of the larger operand with three more bits, e its exponent
\* and s its sign, ms the significand of the smaller aligned to it and
\* same whether the two have one sign.  The sum or difference is
\* normalised and rounded
AddSignificands(s, e, mb, ms, same) ==
    IF same
    THEN IF mb + ms >= Pow2(27)
         THEN RoundPack(s, e + 1, ShiftRightSticky(mb + ms, 1) \div 8,
                        ShiftRightSticky(mb + ms, 1) % 8, 4)
         ELSE RoundPack(s, e, (mb + ms) \div 8, (mb + ms) % 8, 4)
    ELSE IF mb = ms THEN 0
    ELSE LET k == CHOOSE n \in 0..26 :
                      (mb - ms) * Pow2(n) >= Pow2(26)
                      /\ (n = 0 \/ (mb - ms) * Pow2(n - 1) < Pow2(26))
         IN  RoundPack(s, e - k, ((mb - ms) * Pow2(k)) \div 8,
                       ((mb - ms) * Pow2(k)) % 8, 4)

\* a + b on f32: NaN for a NaN operand and for opposite infinities, the
\* infinity of an infinite operand, else the significands carry three more
\* bits and the smaller operand is aligned to the larger
FAdd(a, b) ==
    IF IsNaN(a) \/ IsNaN(b) THEN NaN
    ELSE IF Abs(a) = F32(255, 0) THEN (IF b = 0 - a THEN NaN ELSE a)
    ELSE IF Abs(b) = F32(255, 0) THEN b
    ELSE IF a = 0 THEN b
    ELSE IF b = 0 THEN a
    ELSE LET big == IF Abs(a) >= Abs(b) THEN a ELSE b
             small == IF Abs(a) >= Abs(b) THEN b ELSE a
         IN  AddSignificands(Sign(big), ExponentOf(big), SignificandOf(big) * 8,
                             ShiftRightSticky(SignificandOf(small) * 8,
                                              ExponentOf(big) - ExponentOf(small)),
                             Sign(a) = Sign(b))

\* a - b on f32: the sign of b is flipped
FSub(a, b) == FAdd(a, 0 - b)

\* the last i bits of the significand of a / d after the bits m, a being
\* the remainder so far: <<significand, remainder>>
RECURSIVE QuotientBits(_, _, _, _)
QuotientBits(m, a, d, i) ==
    IF i = 0 THEN <<m, a>>
    ELSE IF 2 * a >= d THEN QuotientBits(2 * m + 1, 2 * a - d, d, i - 1)
    ELSE QuotientBits(2 * m, 2 * a, d, i - 1)

\* the f32 nearest to n / d (d > 0, both below 2^29), which is how the
\* decimal literal n / d of the source is read
F32Of(n, d) ==
    IF n = 0 THEN 0
    ELSE LET a == Abs(n)
             up == IF a >= d THEN CHOOSE k \in 0..29 : a < d * Pow2(k + 1) ELSE 0
             down == IF a >= d THEN 0 ELSE CHOOSE k \in 1..30 : a * Pow2(k) >= d
             bits == QuotientBits(1, a * Pow2(down) - d * Pow2(up), d * Pow2(up), 23)
         IN  RoundPack(Sign(n), 127 + up - down, bits[1], 2 * bits[2], d * Pow2(up))

One == F32Of(1, 1)

\* the literal 0.001 of apply_tick
SnapThreshold == F32Of(1, 1000)

\* the literal 0.5 of handle_interactions
Half == F32Of(1, 2)

None == <<>>

Some(x, y) == <<x, y>>

\* u32::saturating_sub
SaturatingSub(a, b) == IF a >= b THEN a - b ELSE 0

\* ------------------------------------------------------------------------
\* pheromone.rs : Action
\* ------------------------------------------------------------------------

Action == {"Up", "Down", "Left", "Right", "Stay"}

\* Action::to_usize
to_usize(action) ==
    CASE action = "Up" -> 0
      [] action = "Down" -> 1
      [] action = "Left" -> 2
      [] action = "Right" -> 3
      [] action = "Stay" -> 4

\* the array moving_actions of get_best_action, in its order
moving_actions == <<"Up", "Down", "Left", "Right">>

\* ------------------------------------------------------------------------
\* tile.rs : Tile
\* ------------------------------------------------------------------------

\* Tile::new : with a food amount given the tile is a FoodSource of that
\* amount whatever tile_type says; otherwise tile_type as passed, n being
\* the amount of a FoodSource and the stored_food of a Nest
Tile(x, y, tile_type, n, food_source) ==
    IF food_source # None
    THEN [position |-> <<x, y>>,
          tile_type |-> "FoodSource",
          amount |-> food_source[1],
          stored_food |-> 0]
    ELSE [position |-> <<x, y>>,
          tile_type |-> tile_type,
          amount |-> IF tile_type = "FoodSource" THEN n ELSE 0,
          stored_food |-> IF tile_type = "Nest" THEN n ELSE 0]

Tile_is_walkable(tile) == tile.tile_type # "Wall"

Tile_is_lethal(tile) == tile.tile_type = "DeathZone"

Tile_has_food(tile) == tile.tile_type = "FoodSource" /\ tile.amount > 0

Tile_is_nest(tile) == tile.tile_type = "Nest"

\* add_food_to_nest counting one unit per deposit, whatever the charge
Tile_add_food_to_nest_unit(tile, amount) ==
    IF tile.tile_type = "Nest"
    THEN [tile EXCEPT !.stored_food = @ + 1]
    ELSE tile

Tile_add_food_to_nest(tile, amount) ==
    IF tile.tile_type = "Nest"
    THEN [tile EXCEPT !.stored_food = @ + amount]
    ELSE tile

\* ------------------------------------------------------------------------
\* grid.rs : Grid  (tiles is row-major, indexed from 0)
\* ------------------------------------------------------------------------

\* Grid::new_with_tiles : a Default grid, then each listed tile in turn is
\* stored at the index of its position, tiles outside the grid are dropped
RECURSIVE PlaceTiles(_, _, _, _, _)
PlaceTiles(grid_tiles, width, height, tiles, k) ==
    IF k > Len(tiles) THEN grid_tiles
    ELSE LET tile == tiles[k]
             x == tile.position[1]
             y == tile.position[2]
         IN  IF x < width /\ y < height
             THEN PlaceTiles([grid_tiles EXCEPT ![y * width + x] = tile],
                             width, height, tiles, k + 1)
             ELSE PlaceTiles(grid_tiles, width, height, tiles, k + 1)

new_with_tiles(width, height, tiles) ==
    [width |-> width,
     height |-> height,
     tiles |-> PlaceTiles([idx \in 0..(width * height - 1) |->
                              Tile(idx % width, idx \div width, "Default", 0, None)],
                          width, height, tiles, 1)]

\* the attempts place_items allows per requested item
AttemptsPerItem == 100

\* the item types of the three place_items calls, in their order
ItemTypes == <<"FoodSource", "Wall", "DeathZone">>

\* the vector of Default tiles new_random starts from
DefaultTiles(width, height) ==
    [idx \in 0..(width * height - 1) |-> Tile(idx % width, idx \div width, "Default", 0, None)]

\* the counts new_random can draw for a grid of total cells: food from
\* 1..4 exclusive, walls up to total / 4, death zones up to a tenth of what
\* is left
CountChoices(total) ==
    {c \in (1..3) \X (0..(total \div 4)) \X (0..(total \div 10)) :
        LET remaining_after_food == SaturatingSub(total, c[1])
            remaining_after_walls == SaturatingSub(remaining_after_food, c[2])
        IN  /\ remaining_after_food = 0 => c[2] = 0
            /\ c[3] <= (IF remaining_after_walls > 0
                        THEN remaining_after_walls \div 10 ELSE 0)}

\* the bounds of rng.gen_range(100..10000), the amount of a placed
\* FoodSource: the first value and the first value excluded
FoodAmountMin == 100

FoodAmountEnd == 10000

place_attempt_overwriting(tiles, width, x, y, forbidden_idx, item_type, amount) ==
    LET idx == y * width + x
    IN  IF idx = forbidden_idx THEN [tiles |-> tiles, placed |-> 0]
        ELSE [tiles |-> [tiles EXCEPT ![idx] = Tile(x, y, item_type, amount, None)],
              placed |-> 1]

\* the body of the while loop of place_items after attempts += 1, for the
\* drawn cell (x, y) and the drawn food amount: the tiles and the number of
\* items placed by the attempt
place_attempt(tiles, width, x, y, forbidden_idx, item_type, amount) ==
    LET idx == y * width + x
    IN  IF idx = forbidden_idx THEN [tiles |-> tiles, placed |-> 0]
        ELSE IF tiles[idx].tile_type = "Default"
             THEN [tiles |-> [tiles EXCEPT ![idx] = Tile(x, y, item_type, amount, None)],
                   placed |-> 1]
        ELSE [tiles |-> tiles, placed |-> 0]

\* Grid::place_items when the rng gives the cells and amounts of draws, one
\* <<x, y, amount>> per iteration: the tiles, the items placed and the
\* attempts made when the while condition fails or the draws run out
RECURSIVE PlaceLoop(_, _, _, _, _, _, _, _)
PlaceLoop(tiles, width, count, forbidden_idx, item_type, draws, placed, attempts) ==
    IF placed < count /\ attempts < count * AttemptsPerItem /\ attempts < Len(draws)
    THEN LET d == draws[attempts + 1]
             r == place_attempt(tiles, width, d[1], d[2], forbidden_idx, item_type, d[3])
         IN  PlaceLoop(r.tiles, width, count, forbidden_idx, item_type, draws,
                       placed + r.placed, attempts + 1)
    ELSE [tiles |-> tiles, placed |-> placed, attempts |-> attempts]

place_items(tiles, width, count, forbidden_idx, item_type, draws) ==
    PlaceLoop(tiles, width, count, forbidden_idx, item_type, draws, 0, 0)

\* the tiles of Grid::new_random after the place_items calls up to call k,
\* for the outcome sc of the rng: the nest cell sc.nest, the three counts
\* sc.counts and the draws sc.draws[k] of each place_items call. The
\* capacities drawn for the Nest are read nowhere and are not kept
RECURSIVE RandomTiles(_, _)
RandomTiles(sc, k) ==
    LET nest_idx == sc.nest[2] * sc.width + sc.nest[1]
    IN  IF k = 0
        THEN [DefaultTiles(sc.width, sc.height) EXCEPT
                 ![nest_idx] = Tile(sc.nest[1], sc.nest[2], "Nest", 0, None)]
        ELSE place_items(RandomTiles(sc, k - 1), sc.width, sc.counts[k], nest_idx,
                         ItemTypes[k], sc.draws[k]).tiles

\* sc is an outcome the rng can give new_random: the nest and every draw on
\* the grid, the counts among those of the grid's size, food amounts
\* within their range, and each place_items call given exactly the draws
\* its loop consumes
RandomOutcome(sc) ==
    /\ sc.width >= 1 /\ sc.height >= 1
    /\ sc.nest[1] < sc.width /\ sc.nest[2] < sc.height
    /\ sc.counts \in CountChoices(sc.width * sc.height)
    /\ \A k \in 1..Len(ItemTypes) :
          LET r == place_items(RandomTiles(sc, k - 1), sc.width, sc.counts[k],
                               sc.nest[2] * sc.width + sc.nest[1], ItemTypes[k],
                               sc.draws[k])
          IN  /\ r.attempts = Len(sc.draws[k])
              /\ r.placed = sc.counts[k] \/ r.attempts = sc.counts[k] * AttemptsPerItem
              /\ \A i \in 1..Len(sc.draws[k]) :
                    /\ sc.draws[k][i][1] < sc.width
                    /\ sc.draws[k][i][2] < sc.height
                    /\ ItemTypes[k] = "FoodSource" =>
                          /\ FoodAmountMin <= sc.draws[k][i][3]
                          /\ sc.draws[k][i][3] < FoodAmountEnd

\* Grid::new_random for the outcome sc of the rng
new_random(sc) ==
    [width |-> sc.width, height |-> sc.height, tiles |-> RandomTiles(sc, Len(ItemTypes))]

\* get_tile indexing the tiles column by column
get_tile_column_major(grid, x, y) ==
    IF x < grid.width /\ y < grid.height
    THEN <<grid.tiles[x * grid.height + y]>>
    ELSE <<>>

\* Grid::get_tile : Some(&tile) in bounds, None outside
get_tile(grid, x, y) ==
    IF x < grid.width /\ y < grid.height
    THEN <<grid.tiles[y * grid.width + x]>>
    ELSE <<>>

Grid_is_walkable(grid, x, y) ==
    LET t == get_tile(grid, x, y)
    IN  IF t = <<>> THEN FALSE ELSE Tile_is_walkable(t[1])

Grid_is_lethal(grid, x, y) ==
    LET t == get_tile(grid, x, y)
    IN  IF t = <<>> THEN FALSE ELSE Tile_is_lethal(t[1])

Grid_has_food(grid, x, y) ==
    LET t == get_tile(grid, x, y)
    IN  IF t = <<>> THEN FALSE ELSE Tile_has_food(t[1])

Grid_is_nest(grid, x, y) ==
    LET t == get_tile(grid, x, y)
    IN  IF t = <<>> THEN FALSE ELSE Tile_is_nest(t[1])

\* Grid::get_nest_position : the position of the first Nest tile in
\* row-major order, None when there is none
RECURSIVE NestScan(_, _)
NestScan(grid, idx) ==
    IF idx >= grid.width * grid.height THEN None
    ELSE IF Tile_is_nest(grid.tiles[idx]) THEN grid.tiles[idx].position
    ELSE NestScan(grid, idx + 1)

get_nest_position(grid) == NestScan(grid, 0)

\* Grid::add_food_to_nest : get_mut_nest().expect("Nest must exist")
nest_must_exist(grid) == get_nest_position(grid) # None

Grid_add_food_to_nest(grid, amount) ==
    LET pos == get_nest_position(grid)
        idx == pos[2] * grid.width + pos[1]
    IN  [grid EXCEPT !.tiles[idx] = Tile_add_food_to_nest(@, amount)]

\* is_food_remaining counting a FoodSource tile whatever its amount
RECURSIVE FoodScan_any_amount(_, _)
FoodScan_any_amount(grid, idx) ==
    IF idx >= grid.width * grid.height THEN FALSE
    ELSE IF grid.tiles[idx].tile_type = "FoodSource" THEN TRUE
    ELSE FoodScan_any_amount(grid, idx + 1)

\* Grid::is_food_remaining : scan with early return
RECURSIVE FoodScan(_, _)
FoodScan(grid, idx) ==
    IF idx >= grid.width * grid.height THEN FALSE
    ELSE IF grid.tiles[idx].tile_type = "FoodSource" /\ grid.tiles[idx].amount > 0
         THEN TRUE
    ELSE FoodScan(grid, idx + 1)

is_food_remaining(grid) == FoodScan(grid, 0)

\* ------------------------------------------------------------------------
\* ant.rs : Ant
\* ------------------------------------------------------------------------

\* Ant::new : (max_charge, speed, scope) by type
Ant_new(ant_type) ==
    [ant_type |-> ant_type,
     maximal_charge |-> IF ant_type = "PICKER" THEN 100 ELSE 10,
     current_charge |-> 0,
     seconds_for_movement |-> IF ant_type = "PICKER" THEN 10 ELSE 5,
     scope |-> IF ant_type = "PICKER" THEN 0 ELSE 1,
     mode |-> "FINDING",
     position |-> None,
     cooldown |-> 0]

\* get_target_position with the vertical axis the other way up: Up adds
\* one to y and Down subtracts one
get_target_position_flipped(ant, action) ==
    LET p == IF ant.position = None THEN <<0, 0>> ELSE ant.position
        x == p[1]
        y == p[2]
    IN  CASE action = "Up" -> <<x, y + 1>>
          [] action = "Down" -> <<x, SaturatingSub(y, 1)>>
          [] action = "Left" -> <<SaturatingSub(x, 1), y>>
          [] action = "Right" -> <<x + 1, y>>
          [] action = "Stay" -> <<x, y>>

\* Ant::get_target_position
get_target_position(ant, action) ==
    LET p == IF ant.position = None THEN <<0, 0>> ELSE ant.position
        x == p[1]
        y == p[2]
    IN  CASE action = "Up" -> <<x, SaturatingSub(y, 1)>>
          [] action = "Down" -> <<x, y + 1>>
          [] action = "Left" -> <<SaturatingSub(x, 1), y>>
          [] action = "Right" -> <<x + 1, y>>
          [] action = "Stay" -> <<x, y>>

\* Ant::move_to
move_to(ant, x, y) == [ant EXCEPT !.position = Some(x, y)]

\* Ant::spawn_at_nest
spawn_at_nest(ant, grid) ==
    IF get_nest_position(grid) # None
    THEN [ant EXCEPT !.position = get_nest_position(grid)]
    ELSE ant

\* ------------------------------------------------------------------------
\* pheromone.rs : PheromoneMap
\*   data[x][y][a] is the Q-value of action index a at cell (x, y);
\*   pending_updates maps keys <<x, y, a>> to the accumulated delta
\* ------------------------------------------------------------------------

EmptyPending == [key \in {} |-> 0]

\* PheromoneMap::new
PheromoneMap_new(width, height) ==
    [width |-> width,
     height |-> height,
     data |-> [x \in 0..(width - 1) |-> [y \in 0..(height - 1) |-> [a \in 0..4 |-> 0]]],
     pending_updates |-> EmptyPending]

\* PheromoneMap::get_q, whose literal -1000.0 is the f32 of -1000 / 1
get_q(map, x, y, action) ==
    IF x >= map.width \/ y >= map.height
    THEN F32Of(0 - 1000, 1)
    ELSE map.data[x][y][to_usize(action)]

\* the destination get_best_action simulates for a movement action
BestActionTarget(x, y, action) ==
    CASE action = "Up" -> <<x, SaturatingSub(y, 1)>>
      [] action = "Down" -> <<x, y + 1>>
      [] action = "Left" -> <<SaturatingSub(x, 1), y>>
      [] action = "Right" -> <<x + 1, y>>
      [] OTHER -> <<x, y>>

\* the loop of get_best_action comparing with >= : the last maximum wins
RECURSIVE BestActionLoop_last_wins(_, _, _, _, _, _, _)
BestActionLoop_last_wins(map, x, y, grid, k, best_action, max_val) ==
    IF k > Len(moving_actions) THEN <<best_action, max_val>>
    ELSE LET action == moving_actions[k]
             n == BestActionTarget(x, y, action)
             val == get_q(map, x, y, action)
         IN  IF n[1] >= map.width \/ n[2] >= map.height
                \/ ~Grid_is_walkable(grid, n[1], n[2])
             THEN BestActionLoop_last_wins(map, x, y, grid, k + 1, best_action, max_val)
             ELSE IF val >= max_val
                  THEN BestActionLoop_last_wins(map, x, y, grid, k + 1, action, val)
                  ELSE BestActionLoop_last_wins(map, x, y, grid, k + 1, best_action, max_val)

\* the loop of get_best_action : k is the position in moving_actions,
\* best_action and max_val the running best
RECURSIVE BestActionLoop(_, _, _, _, _, _, _)
BestActionLoop(map, x, y, grid, k, best_action, max_val) ==
    IF k > Len(moving_actions) THEN <<best_action, max_val>>
    ELSE LET action == moving_actions[k]
             n == BestActionTarget(x, y, action)
             val == get_q(map, x, y, action)
         IN  IF n[1] >= map.width \/ n[2] >= map.height
                \/ ~Grid_is_walkable(grid, n[1], n[2])
             THEN BestActionLoop(map, x, y, grid, k + 1, best_action, max_val)
             ELSE IF FLt(max_val, val)
                  THEN BestActionLoop(map, x, y, grid, k + 1, action, val)
                  ELSE BestActionLoop(map, x, y, grid, k + 1, best_action, max_val)

\* PheromoneMap::get_best_action
get_best_action(map, x, y, grid) ==
    LET r == BestActionLoop(map, x, y, grid, 1, "Stay", NegInfinity)
    IN  IF r[2] = NegInfinity THEN "Stay" ELSE r[1]

\* the loop of get_max_q over the five slots of one cell
RECURSIVE MaxQLoop(_, _, _)
MaxQLoop(slots, a, max_val) ==
    IF a > 4 THEN max_val
    ELSE IF FLt(max_val, slots[a])
         THEN MaxQLoop(slots, a + 1, slots[a])
         ELSE MaxQLoop(slots, a + 1, max_val)

\* PheromoneMap::get_max_q
get_max_q(map, x, y) ==
    IF x >= map.width \/ y >= map.height THEN 0
    ELSE LET max_val == MaxQLoop(map.data[x][y], 0, NegInfinity)
         IN  IF max_val = NegInfinity THEN 0 ELSE max_val

\* queue_update writing the delta straight into the table
queue_update_immediate(map, x, y, action, delta) ==
    [map EXCEPT !.data[x][y][to_usize(action)] = FAdd(@, delta)]

\* PheromoneMap::queue_update : *entry(key).or_insert(0.0) += delta
queue_update(map, x, y, action, delta) ==
    LET key == <<x, y, to_usize(action)>>
        p == map.pending_updates
    IN  [map EXCEPT !.pending_updates =
            IF key \in DOMAIN p
            THEN [p EXCEPT ![key] = FAdd(@, delta)]
            ELSE [k \in (DOMAIN p) \cup {key} |-> IF k = key THEN FAdd(0, delta) ELSE p[k]]]

\* the evaporation testing val < 0.001 without the abs()
Evaporate_no_abs(val, kept) ==
    LET v == FMul(val, kept)
    IN  IF FLt(v, SnapThreshold) THEN 0 ELSE v

\* the second loop of apply_tick on one value, kept being the factor
\* 1.0 - evaporation_rate: *val *= kept, then
\* if val.abs() < 0.001 { *val = 0.0 }
Evaporate(val, kept) ==
    LET v == FMul(val, kept)
    IN  IF FLt(Abs(v), SnapThreshold) THEN 0 ELSE v

\* the outcome of an operation that panicked on an index out of bounds
IndexPanic == [panic |-> "index out of bounds"]

\* the first loop of apply_tick panics on a pending key it cannot index
\* data with; queue_update stores such a key all the same
DrainPanics(map) ==
    \E key \in DOMAIN map.pending_updates : key[1] >= map.width \/ key[2] >= map.height

\* the drain loop losing the first key the HashMap yields
RECURSIVE DrainLoop_drops_first(_, _, _, _)
DrainLoop_drops_first(data, p, order, k) ==
    IF k > Len(order) THEN data
    ELSE LET key == order[k]
         IN  IF key[1] \notin DOMAIN data \/ key[2] \notin DOMAIN data[key[1]]
             THEN IndexPanic
             ELSE IF k = 1
                  THEN DrainLoop_drops_first(data, p, order, k + 1)
                  ELSE DrainLoop_drops_first(
                           [data EXCEPT ![key[1]][key[2]][key[3]] = FAdd(@, p[key])],
                           p, order, k + 1)

\* the first loop of apply_tick when pending_updates.drain() yields the
\* keys in the given order: data after the keys from position k on, or the
\* panic of the first key that is outside data
RECURSIVE DrainLoop(_, _, _, _)
DrainLoop(data, p, order, k) ==
    IF k > Len(order) THEN data
    ELSE LET key == order[k]
         IN  IF key[1] \notin DOMAIN data \/ key[2] \notin DOMAIN data[key[1]]
             THEN IndexPanic
             ELSE DrainLoop([data EXCEPT ![key[1]][key[2]][key[3]] = FAdd(@, p[key])],
                            p, order, k + 1)

\* the second loop of apply_tick over data, the first loop done: kept is
\* the factor 1.0 - evaporation_rate, the same for every value
EvaporateLoop(data, kept) ==
    [x \in DOMAIN data |->
        [y \in DOMAIN data[x] |->
            [a \in DOMAIN data[x][y] |-> Evaporate(data[x][y][a], kept)]]]

\* apply_tick leaving the drained updates in the buffer
apply_tick_keeps_pending(map, order, evaporation_rate) ==
    IF DrainPanics(map) THEN IndexPanic
    ELSE [map EXCEPT
            !.data = EvaporateLoop(DrainLoop(map.data, map.pending_updates, order, 1),
                                   FSub(One, evaporation_rate))]

\* PheromoneMap::apply_tick when pending_updates.drain() yields its keys in
\* the given order: drain the pending updates into data, then evaporate
\* and snap every value; a pending key outside the map makes the drain
\* loop panic
apply_tick(map, order, evaporation_rate) ==
    IF DrainPanics(map) THEN IndexPanic
    ELSE [map EXCEPT
            !.data = EvaporateLoop(DrainLoop(map.data, map.pending_updates, order, 1),
                                   FSub(One, evaporation_rate)),
            !.pending_updates = EmptyPending]

\* the orders in which a HashMap may yield its keys
IterationOrders(p) ==
    {order \in [1..Cardinality(DOMAIN p) -> DOMAIN p] :
        \A i, j \in DOMAIN order : i # j => order[i] # order[j]}

\* ------------------------------------------------------------------------
\* q_learning_math.rs : QLearningMath
\* ------------------------------------------------------------------------

\* QLearningMath::new
QLearningMath_new(alpha, gamma, epsilon) ==
    [alpha |-> alpha, gamma |-> gamma, epsilon |-> epsilon]

\* compute_delta without the discounted value of the next state
compute_delta_no_discount(self, current_q, reward, max_next_q) ==
    FMul(self.alpha, FSub(reward, current_q))

\* QLearningMath::compute_delta
compute_delta(self, current_q, reward, max_next_q) ==
    FMul(self.alpha, FSub(FAdd(reward, FMul(self.gamma, max_next_q)), current_q))

\* ------------------------------------------------------------------------
\* ants_game_manager.rs : AntsGameManager
\* ------------------------------------------------------------------------

\* the per-cell cap written as the literal 10 in game_step and
\* manage_smart_spawn
MaxAntsPerCell == 10

\* MIN_EXPLORERS_ACTIVE of manage_smart_spawn
MIN_EXPLORERS_ACTIVE == 3

\* the cooldown given to a spawned ant
SpawnCooldown == 2

\* width of the u8 density counter
U8Modulus == 256

\* ants.iter().position(|a| a.position.is_none() && (target_type.is_none()
\* || a.ant_type == target_type)) : the first such index from k on, 0 for
\* None; target_type "" stands for None
FirstInactive(ants, target_type, k) ==
    LET found == {i \in k..Len(ants) :
                     /\ ants[i].position = None
                     /\ (target_type = "" \/ ants[i].ant_type = target_type)}
    IN  IF found = {} THEN 0 ELSE CHOOSE i \in found : \A j \in found : i <= j

\* density[idx] += 1 on a u8 counter, as a build without overflow checks
\* computes it
DensityIncrement(d) == (d + 1) % U8Modulus

\* the for loop of compute_ant_density over the ants lo..hi, in their
\* order: the first half of the range, then the second; a density vector
\* without cells is left as it is by every ant
RECURSIVE DensityLoop(_, _, _, _, _)
DensityLoop(density, ants, width, lo, hi) ==
    IF lo > hi \/ DOMAIN density = {} THEN density
    ELSE IF lo < hi
         THEN DensityLoop(DensityLoop(density, ants, width, lo, (lo + hi) \div 2),
                          ants, width, (lo + hi) \div 2 + 1, hi)
    ELSE IF ants[lo].position = None THEN density
    ELSE LET idx == ants[lo].position[2] * width + ants[lo].position[1]
         IN  IF idx \in DOMAIN density
             THEN [density EXCEPT ![idx] = DensityIncrement(@)]
             ELSE density

\* AntsGameManager::compute_ant_density : one pass over the ants
compute_ant_density(grid, ants) ==
    DensityLoop([idx \in 0..(grid.width * grid.height - 1) |-> 0],
                ants, grid.width, 1, Len(ants))

\* ant_density.get(idx).copied().unwrap_or(0)
DensityAt(ant_density, idx) ==
    IF idx \in DOMAIN ant_density THEN ant_density[idx] ELSE 0

\* manage_smart_spawn without the preference for explorers
manage_smart_spawn_no_preference(ants, grid, config, ant_density, width) ==
    LET max_active_ants == config.nest_capacity
        active_explorers ==
            Cardinality({k \in 1..Len(ants) :
                ants[k].position # None /\ ants[k].ant_type = "EXPLORER"})
        active_total == Cardinality({k \in 1..Len(ants) : ants[k].position # None})
        nest_pos == get_nest_position(grid)
        nest_idx == nest_pos[2] * width + nest_pos[1]
        target_type == ""
        ant_index_to_spawn == FirstInactive(ants, target_type, 1)
        other == FirstInactive(ants, "", 1)
    IN  IF active_total >= max_active_ants THEN ants
        ELSE IF nest_pos = None THEN ants
        ELSE IF DensityAt(ant_density, nest_idx) >= MaxAntsPerCell THEN ants
        ELSE IF ant_index_to_spawn # 0
             THEN [ants EXCEPT ![ant_index_to_spawn] =
                      [@ EXCEPT !.position = nest_pos,
                                !.mode = "FINDING",
                                !.current_charge = 0,
                                !.cooldown = SpawnCooldown]]
        ELSE IF target_type # "" /\ other # 0
             THEN [ants EXCEPT ![other] =
                      [@ EXCEPT !.position = nest_pos, !.mode = "FINDING"]]
        ELSE ants

\* AntsGameManager::manage_smart_spawn : the ant collection after the
\* spawn step
manage_smart_spawn(ants, grid, config, ant_density, width) ==
    LET max_active_ants == config.nest_capacity
        active_explorers ==
            Cardinality({k \in 1..Len(ants) :
                ants[k].position # None /\ ants[k].ant_type = "EXPLORER"})
        active_total == Cardinality({k \in 1..Len(ants) : ants[k].position # None})
        nest_pos == get_nest_position(grid)
        nest_idx == nest_pos[2] * width + nest_pos[1]
        target_type == IF active_explorers < MIN_EXPLORERS_ACTIVE THEN "EXPLORER" ELSE ""
        ant_index_to_spawn == FirstInactive(ants, target_type, 1)
        other == FirstInactive(ants, "", 1)
    IN  IF active_total >= max_active_ants THEN ants
        ELSE IF nest_pos = None THEN ants
        ELSE IF DensityAt(ant_density, nest_idx) >= MaxAntsPerCell THEN ants
        ELSE IF ant_index_to_spawn # 0
             THEN [ants EXCEPT ![ant_index_to_spawn] =
                      [@ EXCEPT !.position = nest_pos,
                                !.mode = "FINDING",
                                !.current_charge = 0,
                                !.cooldown = SpawnCooldown]]
        ELSE IF target_type # "" /\ other # 0
             THEN [ants EXCEPT ![other] =
                      [@ EXCEPT !.position = nest_pos, !.mode = "FINDING"]]
        ELSE ants

\* AntsGameManager::choose_action : draw is "greedy" when
\* rng.gen::<f32>() >= epsilon, else the movement action drawn by
\* rng.gen_range(0..4); the result is <<action, q_curr>>
choose_action(food, nest, grid, x, y, mode, draw) ==
    LET map == IF mode = "FINDING" THEN food ELSE nest
        action == IF draw = "greedy" THEN get_best_action(map, x, y, grid) ELSE draw
    IN  <<action, get_q(map, x, y, action)>>

\* calculate_reward paying the food reward for any FoodSource tile, an
\* exhausted one included
calculate_reward_any_source(config, grid, is_lethal, mode, nx, ny) ==
    IF is_lethal THEN config.reward_death
    ELSE IF mode = "FINDING" /\ get_tile(grid, nx, ny) # None
                             /\ get_tile(grid, nx, ny)[1].tile_type = "FoodSource"
         THEN config.reward_food
    ELSE IF mode = "RETURNING" /\ Grid_is_nest(grid, nx, ny) THEN config.reward_nest
    ELSE config.reward_default

\* AntsGameManager::calculate_reward
calculate_reward(config, grid, is_lethal, mode, nx, ny) ==
    IF is_lethal THEN config.reward_death
    ELSE IF mode = "FINDING" /\ Grid_has_food(grid, nx, ny) THEN config.reward_food
    ELSE IF mode = "RETURNING" /\ Grid_is_nest(grid, nx, ny) THEN config.reward_nest
    ELSE config.reward_default

\* handle_interactions leaving the ant FINDING after a pickup
handle_interactions_keeps_mode(grid, ant, nx, ny, phero_food, phero_nest, config) ==
    LET immediate_boost == FMul(config.reward_food, Half)
        idx == ny * grid.width + nx
        unchanged == [grid |-> grid, ant |-> ant, phero_food |-> phero_food,
                      phero_nest |-> phero_nest, event |-> "none"]
    IN  IF ant.mode = "FINDING"
        THEN IF Grid_has_food(grid, nx, ny)
                /\ get_tile(grid, nx, ny) # <<>>
                /\ grid.tiles[idx].tile_type = "FoodSource"
                /\ grid.tiles[idx].amount > 0
             THEN [grid |-> [grid EXCEPT !.tiles[idx].amount = SaturatingSub(@, 1)],
                   ant |-> [ant EXCEPT !.current_charge = ant.maximal_charge],
                   phero_food |-> queue_update(phero_food, nx, ny, "Stay", immediate_boost),
                   phero_nest |-> phero_nest,
                   event |-> "pickup"]
             ELSE unchanged
        ELSE IF Grid_is_nest(grid, nx, ny)
             THEN IF ~nest_must_exist(grid)
                  THEN [unchanged EXCEPT !.event = "panic"]
                  ELSE [grid |-> Grid_add_food_to_nest(grid, ant.current_charge),
                        ant |-> [ant EXCEPT !.current_charge = 0, !.mode = "FINDING"],
                        phero_food |-> phero_food,
                        phero_nest |-> queue_update(phero_nest, nx, ny, "Stay",
                                                    immediate_boost),
                        event |-> "deposit"]
             ELSE unchanged

\* handle_interactions depositing on whatever cell a RETURNING ant enters
handle_interactions_deposit_anywhere(grid, ant, nx, ny, phero_food, phero_nest, config) ==
    LET immediate_boost == FMul(config.reward_food, Half)
        idx == ny * grid.width + nx
        unchanged == [grid |-> grid, ant |-> ant, phero_food |-> phero_food,
                      phero_nest |-> phero_nest, event |-> "none"]
    IN  IF ant.mode = "FINDING"
        THEN IF Grid_has_food(grid, nx, ny)
                /\ get_tile(grid, nx, ny) # <<>>
                /\ grid.tiles[idx].tile_type = "FoodSource"
                /\ grid.tiles[idx].amount > 0
             THEN [grid |-> [grid EXCEPT !.tiles[idx].amount = SaturatingSub(@, 1)],
                   ant |-> [ant EXCEPT !.current_charge = ant.maximal_charge,
                                       !.mode = "RETURNING"],
                   phero_food |-> queue_update(phero_food, nx, ny, "Stay", immediate_boost),
                   phero_nest |-> phero_nest,
                   event |-> "pickup"]
             ELSE unchanged
        ELSE IF nx < grid.width /\ ny < grid.height
             THEN IF ~nest_must_exist(grid)
                  THEN [unchanged EXCEPT !.event = "panic"]
                  ELSE [grid |-> Grid_add_food_to_nest(grid, ant.current_charge),
                        ant |-> [ant EXCEPT !.current_charge = 0, !.mode = "FINDING"],
                        phero_food |-> phero_food,
                        phero_nest |-> queue_update(phero_nest, nx, ny, "Stay",
                                                    immediate_boost),
                        event |-> "deposit"]
             ELSE unchanged

\* AntsGameManager::handle_interactions : pickup or deposit of one ant that
\* has just moved to (nx, ny); event names what happened
handle_interactions(grid, ant, nx, ny, phero_food, phero_nest, config) ==
    LET immediate_boost == FMul(config.reward_food, Half)
        idx == ny * grid.width + nx
        unchanged == [grid |-> grid, ant |-> ant, phero_food |-> phero_food,
                      phero_nest |-> phero_nest, event |-> "none"]
    IN  IF ant.mode = "FINDING"
        THEN IF Grid_has_food(grid, nx, ny)
                /\ get_tile(grid, nx, ny) # <<>>
                /\ grid.tiles[idx].tile_type = "FoodSource"
                /\ grid.tiles[idx].amount > 0
             THEN [grid |-> [grid EXCEPT !.tiles[idx].amount = SaturatingSub(@, 1)],
                   ant |-> [ant EXCEPT !.current_charge = ant.maximal_charge,
                                       !.mode = "RETURNING"],
                   phero_food |-> queue_update(phero_food, nx, ny, "Stay", immediate_boost),
                   phero_nest |-> phero_nest,
                   event |-> "pickup"]
             ELSE unchanged
        ELSE IF Grid_is_nest(grid, nx, ny)
             THEN IF ~nest_must_exist(grid)
                  THEN [unchanged EXCEPT !.event = "panic"]
                  ELSE [grid |-> Grid_add_food_to_nest(grid, ant.current_charge),
                        ant |-> [ant EXCEPT !.current_charge = 0, !.mode = "FINDING"],
                        phero_food |-> phero_food,
                        phero_nest |-> queue_update(phero_nest, nx, ny, "Stay",
                                                    immediate_boost),
                        event |-> "deposit"]
             ELSE unchanged

\* the evaluation of a move without the refusal of lethal cells by ants
\* that see them
EvaluateMove_blind(st, i, draw, chosen, n, config, rl_params, width, height) ==
    LET ant == st.ants[i]
        x == ant.position[1]
        y == ant.position[2]
        mode == ant.mode
        chosen_action == chosen[1]
        q_curr == chosen[2]
        nx == n[1]
        ny == n[2]
        is_out == nx >= width \/ ny >= height
        is_lethal == IF is_out THEN FALSE ELSE Grid_is_lethal(st.grid, nx, ny)
        target_idx == ny * width + nx
        saturated == ~is_out /\ DensityAt(st.ant_density, target_idx) >= MaxAntsPerCell
        move_allowed == /\ ~is_out
                        /\ Grid_is_walkable(st.grid, nx, ny)
                        /\ ~saturated
        reward == calculate_reward(config, st.grid, is_lethal, mode, nx, ny)
        map == IF mode = "FINDING" THEN st.pheromones_food ELSE st.pheromones_nest
        max_next_q == IF is_out \/ is_lethal THEN 0 ELSE get_max_q(map, nx, ny)
    IN  [ant |-> i, x |-> x, y |-> y, mode |-> mode, draw |-> draw,
         action |-> chosen_action, q_curr |-> q_curr, nx |-> nx, ny |-> ny,
         is_out |-> is_out, is_lethal |-> is_lethal,
         move_allowed |-> move_allowed, reward |-> reward,
         max_next_q |-> max_next_q,
         delta |-> FMul(rl_params.alpha,
                        FSub(FAdd(reward, FMul(rl_params.gamma, max_next_q)), q_curr)),
         event |-> "refused"]

\* the evaluation of a move admitting an ant into a cell that already
\* holds MaxAntsPerCell ants: > in place of >=
EvaluateMove_lenient(st, i, draw, chosen, n, config, rl_params, width, height) ==
    LET ant == st.ants[i]
        x == ant.position[1]
        y == ant.position[2]
        mode == ant.mode
        scope == ant.scope
        chosen_action == chosen[1]
        q_curr == chosen[2]
        nx == n[1]
        ny == n[2]
        is_out == nx >= width \/ ny >= height
        is_lethal == IF is_out THEN FALSE ELSE Grid_is_lethal(st.grid, nx, ny)
        target_idx == ny * width + nx
        saturated == ~is_out /\ DensityAt(st.ant_density, target_idx) > MaxAntsPerCell
        move_allowed == /\ ~is_out
                        /\ Grid_is_walkable(st.grid, nx, ny)
                        /\ ~saturated
                        /\ ~(is_lethal /\ scope > 0)
        reward == calculate_reward(config, st.grid, is_lethal, mode, nx, ny)
        map == IF mode = "FINDING" THEN st.pheromones_food ELSE st.pheromones_nest
        max_next_q == IF is_out \/ is_lethal THEN 0 ELSE get_max_q(map, nx, ny)
    IN  [ant |-> i, x |-> x, y |-> y, mode |-> mode, draw |-> draw,
         action |-> chosen_action, q_curr |-> q_curr, nx |-> nx, ny |-> ny,
         is_out |-> is_out, is_lethal |-> is_lethal,
         move_allowed |-> move_allowed, reward |-> reward,
         max_next_q |-> max_next_q,
         delta |-> FMul(rl_params.alpha,
                        FSub(FAdd(reward, FMul(rl_params.gamma, max_next_q)), q_curr)),
         event |-> "refused"]

\* the evaluation of a move without the is_walkable test
EvaluateMove_through_walls(st, i, draw, chosen, n, config, rl_params, width, height) ==
    LET ant == st.ants[i]
        x == ant.position[1]
        y == ant.position[2]
        mode == ant.mode
        scope == ant.scope
        chosen_action == chosen[1]
        q_curr == chosen[2]
        nx == n[1]
        ny == n[2]
        is_out == nx >= width \/ ny >= height
        is_lethal == IF is_out THEN FALSE ELSE Grid_is_lethal(st.grid, nx, ny)
        target_idx == ny * width + nx
        saturated == ~is_out /\ DensityAt(st.ant_density, target_idx) >= MaxAntsPerCell
        move_allowed == /\ ~is_out
                        /\ ~saturated
                        /\ ~(is_lethal /\ scope > 0)
        reward == calculate_reward(config, st.grid, is_lethal, mode, nx, ny)
        map == IF mode = "FINDING" THEN st.pheromones_food ELSE st.pheromones_nest
        max_next_q == IF is_out \/ is_lethal THEN 0 ELSE get_max_q(map, nx, ny)
    IN  [ant |-> i, x |-> x, y |-> y, mode |-> mode, draw |-> draw,
         action |-> chosen_action, q_curr |-> q_curr, nx |-> nx, ny |-> ny,
         is_out |-> is_out, is_lethal |-> is_lethal,
         move_allowed |-> move_allowed, reward |-> reward,
         max_next_q |-> max_next_q,
         delta |-> FMul(rl_params.alpha,
                        FSub(FAdd(reward, FMul(rl_params.gamma, max_next_q)), q_curr)),
         event |-> "refused"]

\* game_step, from the unpacking of the position to the computation of
\* delta, for the acting ant at index i: chosen is what choose_action
\* returned and n what get_target_position returned; the result is the log
\* entry of the ant, its event still to come
EvaluateMove(st, i, draw, chosen, n, config, rl_params, width, height) ==
    LET ant == st.ants[i]
        x == ant.position[1]
        y == ant.position[2]
        mode == ant.mode
        scope == ant.scope
        chosen_action == chosen[1]
        q_curr == chosen[2]
        nx == n[1]
        ny == n[2]
        is_out == nx >= width \/ ny >= height
        is_lethal == IF is_out THEN FALSE ELSE Grid_is_lethal(st.grid, nx, ny)
        target_idx == ny * width + nx
        saturated == ~is_out /\ DensityAt(st.ant_density, target_idx) >= MaxAntsPerCell
        move_allowed == /\ ~is_out
                        /\ Grid_is_walkable(st.grid, nx, ny)
                        /\ ~saturated
                        /\ ~(is_lethal /\ scope > 0)
        reward == calculate_reward(config, st.grid, is_lethal, mode, nx, ny)
        map == IF mode = "FINDING" THEN st.pheromones_food ELSE st.pheromones_nest
        max_next_q == IF is_out \/ is_lethal THEN 0 ELSE get_max_q(map, nx, ny)
    IN  [ant |-> i, x |-> x, y |-> y, mode |-> mode, draw |-> draw,
         action |-> chosen_action, q_curr |-> q_curr, nx |-> nx, ny |-> ny,
         is_out |-> is_out, is_lethal |-> is_lethal,
         move_allowed |-> move_allowed, reward |-> reward,
         max_next_q |-> max_next_q,
         delta |-> FMul(rl_params.alpha,
                        FSub(FAdd(reward, FMul(rl_params.gamma, max_next_q)), q_curr)),
         event |-> "refused"]

\* game_step after handle_interactions returned hi for the ant that moved
\* into a cell: entered is the provisional density after the move
AfterInteractions(st, i, e, entered, hi) ==
    [st EXCEPT !.grid = hi.grid,
               !.ants[i] = hi.ant,
               !.pheromones_food = hi.phero_food,
               !.pheromones_nest = hi.phero_nest,
               !.ant_density = entered,
               !.log = Append(@, [e EXCEPT !.event = hi.event])]

\* the end of the loop body without the death branch: an ant allowed onto
\* a lethal tile moves in like onto any other
ExecuteMove_lethal_entry(st, i, e, config, width) ==
    LET ant == [st.ants[i] EXCEPT !.cooldown = st.ants[i].seconds_for_movement]
        food1 == IF e.mode = "FINDING"
                 THEN queue_update(st.pheromones_food, e.x, e.y, e.action, e.delta)
                 ELSE st.pheromones_food
        nest1 == IF e.mode = "FINDING"
                 THEN st.pheromones_nest
                 ELSE queue_update(st.pheromones_nest, e.x, e.y, e.action, e.delta)
        old_idx == e.y * width + e.x
        target_idx == e.ny * width + e.nx
        left == IF old_idx \in DOMAIN st.ant_density
                THEN [st.ant_density EXCEPT ![old_idx] = SaturatingSub(@, 1)]
                ELSE st.ant_density
        entered == IF target_idx \in DOMAIN left
                   THEN [left EXCEPT ![target_idx] = (@ + 1) % U8Modulus]
                   ELSE left
    IN  IF ~e.move_allowed
        THEN [st EXCEPT !.ants[i] = ant,
                        !.pheromones_food = food1,
                        !.pheromones_nest = nest1,
                        !.log = Append(@, e)]
        ELSE AfterInteractions(st, i, e, entered,
                               handle_interactions(st.grid, move_to(ant, e.nx, e.ny),
                                                   e.nx, e.ny, food1, nest1, config))

\* the end of the loop body queueing the delta of a legal move only
ExecuteMove_legal_only(st, i, e, config, width) ==
    LET ant == [st.ants[i] EXCEPT !.cooldown = st.ants[i].seconds_for_movement]
        food1 == IF e.mode = "FINDING" /\ e.move_allowed
                 THEN queue_update(st.pheromones_food, e.x, e.y, e.action, e.delta)
                 ELSE st.pheromones_food
        nest1 == IF e.mode = "FINDING" \/ ~e.move_allowed
                 THEN st.pheromones_nest
                 ELSE queue_update(st.pheromones_nest, e.x, e.y, e.action, e.delta)
        old_idx == e.y * width + e.x
        target_idx == e.ny * width + e.nx
        left == IF old_idx \in DOMAIN st.ant_density
                THEN [st.ant_density EXCEPT ![old_idx] = SaturatingSub(@, 1)]
                ELSE st.ant_density
        entered == IF target_idx \in DOMAIN left
                   THEN [left EXCEPT ![target_idx] = (@ + 1) % U8Modulus]
                   ELSE left
    IN  IF ~e.move_allowed
        THEN [st EXCEPT !.ants[i] = ant,
                        !.pheromones_food = food1,
                        !.pheromones_nest = nest1,
                        !.log = Append(@, e)]
        ELSE IF e.is_lethal
             THEN [st EXCEPT !.ants[i] = [ant EXCEPT !.position = None],
                             !.pheromones_food = food1,
                             !.pheromones_nest = nest1,
                             !.ant_density = left,
                             !.log = Append(@, [e EXCEPT !.event = "death"])]
        ELSE AfterInteractions(st, i, e, entered,
                               handle_interactions(st.grid, move_to(ant, e.nx, e.ny),
                                                   e.nx, e.ny, food1, nest1, config))

\* game_step from the queue_update of delta to the end of the loop body,
\* for the acting ant at index i whose move was evaluated as e
ExecuteMove(st, i, e, config, width) ==
    LET ant == [st.ants[i] EXCEPT !.cooldown = st.ants[i].seconds_for_movement]
        food1 == IF e.mode = "FINDING"
                 THEN queue_update(st.pheromones_food, e.x, e.y, e.action, e.delta)
                 ELSE st.pheromones_food
        nest1 == IF e.mode = "FINDING"
                 THEN st.pheromones_nest
                 ELSE queue_update(st.pheromones_nest, e.x, e.y, e.action, e.delta)
        old_idx == e.y * width + e.x
        target_idx == e.ny * width + e.nx
        left == IF old_idx \in DOMAIN st.ant_density
                THEN [st.ant_density EXCEPT ![old_idx] = SaturatingSub(@, 1)]
                ELSE st.ant_density
        entered == IF target_idx \in DOMAIN left
                   THEN [left EXCEPT ![target_idx] = (@ + 1) % U8Modulus]
                   ELSE left
    IN  IF ~e.move_allowed
        THEN [st EXCEPT !.ants[i] = ant,
                        !.pheromones_food = food1,
                        !.pheromones_nest = nest1,
                        !.log = Append(@, e)]
        ELSE IF e.is_lethal
             THEN [st EXCEPT !.ants[i] = [ant EXCEPT !.position = None],
                             !.pheromones_food = food1,
                             !.pheromones_nest = nest1,
                             !.ant_density = left,
                             !.log = Append(@, [e EXCEPT !.event = "death"])]
        ELSE AfterInteractions(st, i, e, entered,
                               handle_interactions(st.grid, move_to(ant, e.nx, e.ny),
                                                   e.nx, e.ny, food1, nest1, config))

\* game_step for the acting ant at index i, once choose_action returned
\* chosen
MoveAnt(st, i, draw, chosen, config, rl_params, width, height) ==
    ExecuteMove(st, i,
                EvaluateMove(st, i, draw, chosen,
                             get_target_position(st.ants[i], chosen[1]),
                             config, rl_params, width, height),
                config, width)

\* the loop body letting an ant act one tick early: cooldown > 1 in place
\* of cooldown > 0
StepAnt_early(st, i, draw, config, rl_params, width, height) ==
    LET ant0 == st.ants[i]
    IN  IF ant0.position = None THEN st
        ELSE IF ant0.cooldown > 1
             THEN [st EXCEPT !.ants[i].cooldown = @ - 1]
        ELSE MoveAnt(st, i, draw,
                     choose_action(st.pheromones_food, st.pheromones_nest, st.grid,
                                   ant0.position[1], ant0.position[2], ant0.mode, draw),
                     config, rl_params, width, height)

\* the body of the while loop of game_step for the ant at index i; st is
\* the state the loop threads (grid, ants, both maps, the provisional
\* density, and a log with one entry per ant that acted), draw the outcome
\* of the random source for this ant
StepAnt(st, i, draw, config, rl_params, width, height) ==
    LET ant0 == st.ants[i]
    IN  IF ant0.position = None THEN st
        ELSE IF ant0.cooldown > 0
             THEN [st EXCEPT !.ants[i].cooldown = @ - 1]
        ELSE MoveAnt(st, i, draw,
                     choose_action(st.pheromones_food, st.pheromones_nest, st.grid,
                                   ant0.position[1], ant0.position[2], ant0.mode, draw),
                     config, rl_params, width, height)

\* the while loop of game_step (while i < self.ants.len()) over the ants
\* lo..hi, in their order: the first half of the range, then the second
RECURSIVE AntLoop(_, _, _, _, _, _, _, _)
AntLoop(st, lo, hi, draws, config, rl_params, width, height) ==
    IF lo > hi \/ lo > Len(st.ants) THEN st
    ELSE IF lo < hi
         THEN AntLoop(AntLoop(st, lo, (lo + hi) \div 2, draws, config, rl_params,
                              width, height),
                      (lo + hi) \div 2 + 1, hi, draws, config, rl_params, width, height)
    ELSE StepAnt(st, lo, IF lo \in DOMAIN draws THEN draws[lo] ELSE "greedy",
                 config, rl_params, width, height)

\* the live state of a manager, as copied into a GameStateSnapshot
Snapshot(g, a, food, nest) ==
    [grid |-> g, ants |-> a, pheromones_food |-> food, pheromones_nest |-> nest]

\* save_snapshot without the truncation of the recorded future
save_snapshot_no_truncate(hist, index, snapshot) ==
    <<Append(hist, snapshot), Len(hist)>>

\* save_snapshot leaving current_tick_index where it was
save_snapshot_stale_index(hist, index, snapshot) ==
    LET kept == IF index < SaturatingSub(Len(hist), 1)
                THEN SubSeq(hist, 1, index + 1)
                ELSE hist
    IN  <<Append(kept, snapshot), index>>

\* AntsGameManager::save_snapshot : <<history, current_tick_index>> after
\* the call
save_snapshot(hist, index, snapshot) ==
    LET kept == IF index < SaturatingSub(Len(hist), 1)
                THEN SubSeq(hist, 1, index + 1)
                ELSE hist
        pushed == Append(kept, snapshot)
    IN  <<pushed, Len(pushed) - 1>>

\* QLearningParams as synchronised from the configuration
SyncParams(config) ==
    [alpha |-> config.alpha, gamma |-> config.gamma, epsilon |-> config.epsilon]

\* the ants that consume a random draw in a tick: positioned after the
\* spawn step and with no cooldown left
Acting(ants) == {i \in 1..Len(ants) : ants[i].position # None /\ ants[i].cooldown = 0}

\* what one call of choose_action may take from the rng: the f32 of
\* rng.gen::<f32>(), here the least and the greatest value of [0, 1), and
\* the movement action of rng.gen_range(0..4)
RawDraws == {0, F32(126, Pow2(23) - 1)} \X {"Up", "Down", "Left", "Right"}

\* the part of a raw draw choose_action consumes: gen_range is called only
\* when the f32 is below epsilon
Consumed(raw, epsilon) == IF FLt(raw[1], epsilon) THEN raw ELSE <<raw[1]>>

\* the test rng.gen::<f32>() < self.rl_params.epsilon of choose_action:
\* the drawn movement action when it is true, "greedy" when it is false
Drawn(raw, epsilon) == IF FLt(raw[1], epsilon) THEN raw[2] ELSE "greedy"

\* the outcomes of that test over the raw draws
DrawSet(epsilon) == {Drawn(raw, epsilon) : raw \in RawDraws}

\* AntsGameManager::game_step up to the end of the per-ant loop
StepLoop(g, a, food, nest, config, draws) ==
    LET ant_density == compute_ant_density(g, a)
        spawned == manage_smart_spawn(a, g, config, ant_density, g.width)
    IN  AntLoop([grid |-> g, ants |-> spawned, pheromones_food |-> food,
                 pheromones_nest |-> nest, ant_density |-> ant_density, log |-> <<>>],
                1, Len(a), draws, config, SyncParams(config), g.width, g.height)

\* is_game_finished without the food test
is_game_finished_ants_only(g, a) ==
    \A i \in 1..Len(a) : a[i].position = None

\* is_game_finished with && in place of ||
is_game_finished_and(g, a) ==
    (\A i \in 1..Len(a) : a[i].position = None) /\ ~is_food_remaining(g)

\* AntsGameManager::is_game_finished
is_game_finished(g, a) ==
    (\A i \in 1..Len(a) : a[i].position = None) \/ ~is_food_remaining(g)

\* ------------------------------------------------------------------------
\* Bounds and the constructions the model starts from
\* ------------------------------------------------------------------------

\* ticks the caller's loop allows in the long, deterministic run
MaxTicksLong == 24

\* ticks the caller's loop allows in the other runs
MaxTicksShort == 7

\* ticks of a run in which an ant with a movement period of 10 acts twice
\* and is put back on the map the tick after
MaxTicksRespawn == 13

\* ticks a manager launched from the map editor is followed for
MaxTicksCustom == 4

\* ants of the crowded colony: one more than a cell may hold
CrowdSize == 11

\* ticks the colony that overflows the density counter is followed for
MaxTicksWrap == 2

\* SimulationConfig::default, with epsilon given
Config(epsilon) ==
    [alpha |-> F32Of(1, 10),
     gamma |-> F32Of(99, 100),
     epsilon |-> epsilon,
     max_ticks |-> 1000000000,
     reward_food |-> F32Of(1000, 1),
     reward_nest |-> F32Of(1000, 1),
     reward_death |-> F32Of(0 - 100, 1),
     reward_default |-> F32Of(0 - 1, 1),
     nest_capacity |-> 100,
     pheromone_evaporation |-> F32Of(1, 100)]

\* an ant already placed on the map
PlacedAnt(ant_type, x, y) == [Ant_new(ant_type) EXCEPT !.position = Some(x, y)]

\* 2x1 grid, Nest at (0,0), one FoodSource of amount 1 at (1,0), one
\* PICKER, epsilon = 0, gamma = 0.9
TerminationScenario ==
    [ctor |-> "new", width |-> 2, height |-> 1,
     tiles |-> <<Tile(0, 0, "Nest", 0, None), Tile(1, 0, "FoodSource", 1, None)>>,
     ants |-> <<Ant_new("PICKER")>>,
     config |-> [Config(0) EXCEPT !.gamma = F32Of(9, 10)],
     ticks |-> MaxTicksLong]

\* a random 2x1 map (the nest drawn at (0,0), one food tile requested and
\* placed at (1,0) with the lowest amount on the first attempt) with
\* CrowdSize pickers, which new_game_mode_random puts on the nest
CrowdedScenario ==
    [ctor |-> "new_game_mode_random", width |-> 2, height |-> 1,
     nest |-> <<0, 0>>, counts |-> <<1, 0, 0>>,
     draws |-> << <<<<1, 0, FoodAmountMin>>>>, <<>>, <<>> >>,
     ants |-> [k \in 1..CrowdSize |-> Ant_new("PICKER")],
     config |-> Config(0), ticks |-> MaxTicksShort]

\* a custom 3x2 map with every tile variant and two ants on the nest, as
\* the interface places them; epsilon strictly between 0 and 1
ExploreScenario ==
    [ctor |-> "new", width |-> 3, height |-> 2,
     tiles |-> <<Tile(0, 0, "FoodSource", 2, None), Tile(1, 0, "Nest", 0, None),
                 Tile(0, 1, "Wall", 0, None), Tile(1, 1, "DeathZone", 0, None)>>,
     ants |-> <<PlacedAnt("EXPLORER", 1, 0), PlacedAnt("PICKER", 1, 0)>>,
     config |-> Config(F32Of(1, 20)), ticks |-> MaxTicksShort]

\* AntsGameManager::new given an empty ant list and a tile list one of
\* whose tiles lies outside the 2x2 grid
EmptyScenario ==
    [ctor |-> "new", width |-> 2, height |-> 2,
     tiles |-> <<Tile(1, 1, "Nest", 0, None), Tile(0, 0, "FoodSource", 1, None),
                 Tile(5, 5, "Wall", 0, None)>>,
     ants |-> <<>>,
     config |-> Config(0), ticks |-> MaxTicksShort]

Scenarios ==
    {TerminationScenario, CrowdedScenario, ExploreScenario, EmptyScenario,
     \* a custom 1x2 map whose nest holds CrowdSize - 2 pickers, one below the
     \* cap, with one picker on the cell under it and one waiting to be spawned
     [ctor |-> "new", width |-> 1, height |-> 2,
      tiles |-> <<Tile(0, 0, "Nest", 0, None)>>,
      ants |-> [k \in 1..CrowdSize |->
                   IF k <= CrowdSize - 2 THEN PlacedAnt("PICKER", 0, 0)
                   ELSE IF k = CrowdSize - 1 THEN PlacedAnt("PICKER", 0, 1)
                   ELSE Ant_new("PICKER")],
      config |-> Config(0), ticks |-> MaxTicksShort],
     \* a colony waiting in the nest, pickers first and last, with room for one
     \* ant more than the explorer quota: the spawn step brings the explorers
     \* out first, then one picker, then nobody
     [ctor |-> "new", width |-> 2, height |-> 1,
      tiles |-> <<Tile(0, 0, "Nest", 0, None), Tile(1, 0, "FoodSource", 1, None)>>,
      ants |-> <<Ant_new("PICKER"), Ant_new("EXPLORER"), Ant_new("EXPLORER"),
                 Ant_new("EXPLORER"), Ant_new("PICKER")>>,
      config |-> [Config(0) EXCEPT !.nest_capacity = MIN_EXPLORERS_ACTIVE + 1],
      ticks |-> MaxTicksShort],
     \* a nest already holding as many pickers as a cell may hold, and one
     \* picker waiting to be spawned
     [ctor |-> "new", width |-> 2, height |-> 1,
      tiles |-> <<Tile(0, 0, "Nest", 0, None), Tile(1, 0, "FoodSource", 1, None)>>,
      ants |-> [k \in 1..(MaxAntsPerCell + 1) |->
                   IF k <= MaxAntsPerCell THEN PlacedAnt("PICKER", 0, 0)
                   ELSE Ant_new("PICKER")],
      config |-> Config(0), ticks |-> MaxTicksShort],
     \* a random map (as in CrowdedScenario, the food placed on the second
     \* attempt after one on the nest cell) and a colony of one ant more than
     \* nest_capacity
     [ctor |-> "new_game_mode_random", width |-> 2, height |-> 1,
      nest |-> <<0, 0>>, counts |-> <<1, 0, 0>>,
      draws |-> << <<<<0, 0, FoodAmountMin>>, <<1, 0, FoodAmountMin>>>>, <<>>, <<>> >>,
      ants |-> <<Ant_new("EXPLORER"), Ant_new("PICKER"), Ant_new("PICKER")>>,
      config |-> [Config(0) EXCEPT !.nest_capacity = 2],
      ticks |-> MaxTicksShort],
     \* a FIGHTER on the nest of a 1x2 map whose only other cell is a DeathZone
     [ctor |-> "new", width |-> 1, height |-> 2,
      tiles |-> <<Tile(0, 0, "Nest", 0, None), Tile(0, 1, "DeathZone", 0, None)>>,
      ants |-> <<PlacedAnt("FIGHTER", 0, 0)>>,
      config |-> Config(0), ticks |-> MaxTicksShort],
     \* a 1x2 map whose FoodSource of amount 1 holds one picker fewer than a
     \* cell may hold, with two more pickers on the nest under it: all of them
     \* head for the food cell in the first tick
     [ctor |-> "new", width |-> 1, height |-> 2,
      tiles |-> <<Tile(0, 0, "FoodSource", 1, None), Tile(0, 1, "Nest", 0, None)>>,
      ants |-> [k \in 1..(MaxAntsPerCell + 1) |->
                   IF k < MaxAntsPerCell THEN PlacedAnt("PICKER", 0, 0)
                   ELSE PlacedAnt("PICKER", 0, 1)],
      config |-> Config(0), ticks |-> MaxTicksShort],
     \* a 3x1 map, Nest (0,0), FoodSource of amount 1 (1,0), DeathZone (2,0),
     \* and a colony of one PICKER waiting to be spawned; every action is drawn
     \* at random
     [ctor |-> "new", width |-> 3, height |-> 1,
      tiles |-> <<Tile(0, 0, "Nest", 0, None), Tile(1, 0, "FoodSource", 1, None),
                  Tile(2, 0, "DeathZone", 0, None)>>,
      ants |-> <<Ant_new("PICKER")>>,
      config |-> Config(One), ticks |-> MaxTicksRespawn],
     \* a 2x1 map without a Nest, FoodSource (1,0), with one EXPLORER placed on
     \* (0,0) and one waiting to be spawned; every action is drawn at random
     [ctor |-> "new", width |-> 2, height |-> 1,
      tiles |-> <<Tile(1, 0, "FoodSource", 1, None)>>,
      ants |-> <<PlacedAnt("EXPLORER", 0, 0), Ant_new("EXPLORER")>>,
      config |-> Config(One), ticks |-> MaxTicksShort],
     \* a 3x1 map with a Nest at each end and a FoodSource between them, one
     \* EXPLORER placed on the first Nest; every action is drawn at random
     [ctor |-> "new", width |-> 3, height |-> 1,
      tiles |-> <<Tile(0, 0, "Nest", 0, None), Tile(1, 0, "FoodSource", 1, None),
                  Tile(2, 0, "Nest", 0, None)>>,
      ants |-> <<PlacedAnt("EXPLORER", 0, 0)>>,
      config |-> Config(One), ticks |-> MaxTicksShort],
     \* AntsGameManager::new given a PICKER whose position is one column past
     \* the 2x1 grid
     [ctor |-> "new", width |-> 2, height |-> 1,
      tiles |-> <<Tile(0, 0, "Nest", 0, None), Tile(1, 0, "FoodSource", 1, None)>>,
      ants |-> <<PlacedAnt("PICKER", 2, 0)>>,
      config |-> Config(0), ticks |-> MaxTicksShort],
     \* AntsGameManager::new given as many pickers as the u8 density counter
     \* has values, standing on the nest with the cooldown a move has left them,
     \* one picker waiting to be spawned, and a nest_capacity above the colony
     [ctor |-> "new", width |-> 2, height |-> 1,
      tiles |-> <<Tile(0, 0, "Nest", 0, None), Tile(1, 0, "FoodSource", 1, None)>>,
      ants |-> [k \in 1..(U8Modulus + 1) |->
                   IF k <= U8Modulus
                   THEN [PlacedAnt("PICKER", 0, 0) EXCEPT
                            !.cooldown = Ant_new("PICKER").seconds_for_movement]
                   ELSE Ant_new("PICKER")],
      config |-> [Config(0) EXCEPT !.nest_capacity = U8Modulus + 2],
      ticks |-> MaxTicksWrap]}

\* the loop of new_game_mode_random over the ants
SpawnAll(scenario_ants, g) == [k \in 1..Len(scenario_ants) |-> spawn_at_nest(scenario_ants[k], g)]

\* ------------------------------------------------------------------------
\* State
\* ------------------------------------------------------------------------

VARIABLES
    grid,                 \* AntsGameManager.grid
    ants,                 \* AntsGameManager.ants
    pheromones_food,      \* AntsGameManager.pheromones_food
    pheromones_nest,      \* AntsGameManager.pheromones_nest
    rl_params,            \* AntsGameManager.rl_params
    config,               \* AntsGameManager.config
    history,              \* AntsGameManager.history
    current_tick_index,   \* AntsGameManager.current_tick_index
    last_op,              \* the last call made on the manager and what it did
    lived,                \* the live state after each tick of the current branch
    probe,                \* a PheromoneMap operation exercised on its own
    tick_bound            \* the number of ticks the exploration follows a manager for

vars == <<grid, ants, pheromones_food, pheromones_nest, rl_params, config,
          history, current_tick_index, last_op, lived, probe, tick_bound>>

Live == Snapshot(grid, ants, pheromones_food, pheromones_nest)

NoOp(op, index) ==
    [op |-> op, index |-> index, truncated |-> FALSE, forward |-> FALSE, log |-> <<>>,
     visible_food |-> <<>>, visible_nest |-> <<>>, density |-> <<>>]

\* the fields of the manager AntsGameManager::new or
\* AntsGameManager::new_game_mode_random returns, the latter for the
\* outcome of the rng held by sc
Built(sc) ==
    LET g == IF sc.ctor = "new"
             THEN new_with_tiles(sc.width, sc.height, sc.tiles)
             ELSE new_random(sc)
        a == IF sc.ctor = "new" THEN sc.ants ELSE SpawnAll(sc.ants, g)
        food == PheromoneMap_new(sc.width, sc.height)
        nest == PheromoneMap_new(sc.width, sc.height)
        saved == save_snapshot(<<>>, 0, Snapshot(g, a, food, nest))
    IN  [grid |-> g, ants |-> a, pheromones_food |-> food, pheromones_nest |-> nest,
         rl_params |-> SyncParams(sc.config), config |-> sc.config,
         history |-> saved[1], current_tick_index |-> saved[2]]

\* AntsGameManager::new and AntsGameManager::new_game_mode_random giving
\* the manager the behaviour starts with
Construct(sc) ==
    LET b == Built(sc)
    IN  /\ sc.ctor # "new" => RandomOutcome(sc)
        /\ grid = b.grid
        /\ ants = b.ants
        /\ pheromones_food = b.pheromones_food
        /\ pheromones_nest = b.pheromones_nest
        /\ rl_params = b.rl_params
        /\ config = b.config
        /\ history = b.history
        /\ current_tick_index = b.current_tick_index
        /\ last_op = NoOp(sc.ctor, 0)
        /\ lived = <<Snapshot(b.grid, b.ants, b.pheromones_food, b.pheromones_nest)>>
        /\ tick_bound = sc.ticks

Init == (\E sc \in Scenarios : Construct(sc)) /\ probe = [fn |-> "none"]

\* game_step panics: on the expect() of add_food_to_nest in the per-ant
\* loop, or in apply_tick on a pending key outside the map
StepPanics(st) ==
    \/ \E k \in 1..Len(st.log) : st.log[k].event = "panic"
    \/ DrainPanics(st.pheromones_food)
    \/ DrainPanics(st.pheromones_nest)

\* the live state the two apply_tick calls of game_step leave when the
\* per-ant loop ended in st and the two HashMaps yield their pending keys
\* in the given orders
AfterTicks(st, cfg, order_food, order_nest) ==
    Snapshot(st.grid, st.ants,
             apply_tick(st.pheromones_food, order_food, cfg.pheromone_evaporation),
             apply_tick(st.pheromones_nest, order_nest, cfg.pheromone_evaporation))

\* the end of game_step: st is the state the per-ant loop left and after
\* the live state once both maps took their tick, which is saved.  A step
\* that panics saves nothing: the thread unwinds and the manager is not
\* used again
EndOfStep(st, after) ==
    IF StepPanics(st)
    THEN /\ last_op' = [NoOp("panic", current_tick_index) EXCEPT !.log = st.log]
         /\ rl_params' = SyncParams(config)
         /\ UNCHANGED <<grid, ants, pheromones_food, pheromones_nest, config,
                        history, current_tick_index, lived, tick_bound>>
    ELSE
    LET saved == save_snapshot(history, current_tick_index, after)
    IN  /\ rl_params' = SyncParams(config)
        /\ grid' = st.grid
        /\ ants' = st.ants
        /\ pheromones_food' = after.pheromones_food
        /\ pheromones_nest' = after.pheromones_nest
        /\ history' = saved[1]
        /\ current_tick_index' = saved[2]
        /\ last_op' = [op |-> "game_step", index |-> current_tick_index,
                       truncated |-> current_tick_index + 1 < Len(history),
                       forward |-> FALSE,
                       log |-> st.log,
                       visible_food |-> st.pheromones_food.data,
                       visible_nest |-> st.pheromones_nest.data,
                       density |-> st.ant_density]
        /\ lived' = Append(SubSeq(lived, 1, current_tick_index + 1), after)
        /\ UNCHANGED <<config, tick_bound>>

\* the two apply_tick calls and save_snapshot for every order in which the
\* two HashMaps may yield their pending keys
DrainAndSave(st) ==
    \E order_food \in IterationOrders(st.pheromones_food.pending_updates) :
        \E order_nest \in IterationOrders(st.pheromones_nest.pending_updates) :
            EndOfStep(st, AfterTicks(st, config, order_food, order_nest))

\* density[idx] += 1 of compute_ant_density overflows: some cell holds
\* more ants than the u8 counter can count
DensityOverflows(g, a) ==
    \E idx \in 0..(g.width * g.height - 1) :
        Cardinality({k \in 1..Len(a) :
                        /\ a[k].position # None
                        /\ a[k].position[2] * g.width + a[k].position[1] = idx})
            >= U8Modulus

\* AntsGameManager::game_step, as main.rs and Interface::update call it,
\* tick after tick and whether or not the game is finished.  game_step
\* reads no tick limit; the exploration stops following a manager at
\* tick_bound ticks.  When the density counter overflows, a build with
\* overflow checks panics in compute_ant_density, after the parameters
\* were synchronised, and a build without them goes on with the wrapped
\* counter
GameStep ==
    /\ last_op.op # "panic"
    /\ current_tick_index < tick_bound
    /\ \/ /\ DensityOverflows(grid, ants)
          /\ last_op' = NoOp("panic", current_tick_index)
          /\ rl_params' = SyncParams(config)
          /\ UNCHANGED <<grid, ants, pheromones_food, pheromones_nest, config,
                         history, current_tick_index, lived, tick_bound>>
       \/ \E draws \in [Acting(manage_smart_spawn(ants, grid, config,
                                                  compute_ant_density(grid, ants),
                                                  grid.width))
                        -> DrawSet(config.epsilon)] :
             DrainAndSave(StepLoop(grid, ants, pheromones_food, pheromones_nest,
                                   config, draws))
    /\ UNCHANGED probe

\* restore_snapshot forgetting the two pheromone maps
RestoreSnapshot_stale_maps(index) ==
    /\ IF index < Len(history)
       THEN LET snapshot == history[index + 1]
            IN  /\ grid' = snapshot.grid
                /\ ants' = snapshot.ants
                /\ current_tick_index' = index
                /\ UNCHANGED <<pheromones_food, pheromones_nest>>
       ELSE UNCHANGED <<grid, ants, pheromones_food, pheromones_nest, current_tick_index>>
    /\ last_op' = NoOp("restore_snapshot", index)
    /\ UNCHANGED <<rl_params, config, history, lived, tick_bound>>

\* restore_snapshot clamping an index past the end to the last snapshot
RestoreSnapshot_clamped(index) ==
    /\ LET k == IF index < Len(history) THEN index ELSE Len(history) - 1
           snapshot == history[k + 1]
       IN  /\ grid' = snapshot.grid
           /\ ants' = snapshot.ants
           /\ pheromones_food' = snapshot.pheromones_food
           /\ pheromones_nest' = snapshot.pheromones_nest
           /\ current_tick_index' = k
    /\ last_op' = NoOp("restore_snapshot", index)
    /\ UNCHANGED <<rl_params, config, history, lived, tick_bound>>

\* restore_snapshot replacing the live state without moving the current index
RestoreSnapshot_keeps_index(index) ==
    /\ IF index < Len(history)
       THEN LET snapshot == history[index + 1]
            IN  /\ grid' = snapshot.grid
                /\ ants' = snapshot.ants
                /\ pheromones_food' = snapshot.pheromones_food
                /\ pheromones_nest' = snapshot.pheromones_nest
                /\ UNCHANGED current_tick_index
       ELSE UNCHANGED <<grid, ants, pheromones_food, pheromones_nest, current_tick_index>>
    /\ last_op' = NoOp("restore_snapshot", index)
    /\ UNCHANGED <<rl_params, config, history, lived, tick_bound>>

\* restore_snapshot leaving the live ants as they are
RestoreSnapshot_stale_ants(index) ==
    /\ IF index < Len(history)
       THEN LET snapshot == history[index + 1]
            IN  /\ grid' = snapshot.grid
                /\ pheromones_food' = snapshot.pheromones_food
                /\ pheromones_nest' = snapshot.pheromones_nest
                /\ current_tick_index' = index
                /\ UNCHANGED ants
       ELSE UNCHANGED <<grid, ants, pheromones_food, pheromones_nest, current_tick_index>>
    /\ last_op' = NoOp("restore_snapshot", index)
    /\ UNCHANGED <<rl_params, config, history, lived, tick_bound>>

\* restore_snapshot cutting the history off after the restored snapshot
RestoreSnapshot_truncating(index) ==
    /\ IF index < Len(history)
       THEN LET snapshot == history[index + 1]
            IN  /\ grid' = snapshot.grid
                /\ ants' = snapshot.ants
                /\ pheromones_food' = snapshot.pheromones_food
                /\ pheromones_nest' = snapshot.pheromones_nest
                /\ current_tick_index' = index
                /\ history' = SubSeq(history, 1, index + 1)
       ELSE UNCHANGED <<grid, ants, pheromones_food, pheromones_nest, current_tick_index,
                        history>>
    /\ last_op' = NoOp("restore_snapshot", index)
    /\ UNCHANGED <<rl_params, config, lived, tick_bound>>

\* AntsGameManager::restore_snapshot(index); forward records that the call
\* moved to a later snapshot than the current one
RestoreSnapshot(index) ==
    /\ IF index < Len(history)
       THEN LET snapshot == history[index + 1]
            IN  /\ grid' = snapshot.grid
                /\ ants' = snapshot.ants
                /\ pheromones_food' = snapshot.pheromones_food
                /\ pheromones_nest' = snapshot.pheromones_nest
                /\ current_tick_index' = index
       ELSE UNCHANGED <<grid, ants, pheromones_food, pheromones_nest, current_tick_index>>
    /\ last_op' = [NoOp("restore_snapshot", index) EXCEPT
                       !.forward = index < Len(history) /\ index > current_tick_index]
    /\ UNCHANGED <<rl_params, config, history, lived, tick_bound>>

\* restore_snapshot called with any index up to one past the last snapshot
Restore ==
    /\ last_op.op # "panic"
    /\ \E index \in 0..Len(history) : RestoreSnapshot(index)
    /\ UNCHANGED probe

Next == GameStep \/ Restore

Spec == Init /\ [][Next]_vars

\* ------------------------------------------------------------------------
\* PheromoneMap on its own: queue_update / apply_tick and get_best_action
\* applied to inputs drawn from small sets
\* ------------------------------------------------------------------------

\* queue_update calls made before apply_tick
MaxQueued == 2

\* the maps and rates apply_tick is called with: a 2x1 map holding 0,
\* 0.0009, 0.001, -0.0015 or 0.1 at (0,0,Up), 0 or 2.5 at (1,0,Stay) and
\* zero elsewhere, and the evaporation rates 0, 0.01, 0.5, 0.99 and 1
TickInputs ==
    {[fn |-> "apply_tick",
      map |-> [PheromoneMap_new(2, 1) EXCEPT !.data[0][0][0] = v, !.data[1][0][4] = w],
      rate |-> r,
      queued |-> <<>>, before |-> <<>>, applied |-> FALSE, panicked |-> FALSE] :
        v \in {0, F32Of(9, 10000), SnapThreshold, F32Of(0 - 15, 10000), F32Of(1, 10)},
        w \in {0, F32Of(25, 10)},
        r \in {0, F32Of(1, 100), Half, F32Of(99, 100), One}}

\* a 3x3 grid with Wall tiles on the listed cells
WalledGrid(walls) ==
    new_with_tiles(3, 3, [k \in 1..Len(walls) |-> Tile(walls[k][1], walls[k][2], "Wall", 0, None)])

\* get_best_action at the centre or a corner of a 3x3 map whose cell holds
\* q[a] for the movement actions and 2.0 for Stay, each of the four cells
\* around the centre a Wall or not
BestInputs ==
    {[fn |-> "get_best_action",
      map |-> [PheromoneMap_new(3, 3) EXCEPT
                  !.data[c[1]][c[2]] = [a \in 0..4 |-> IF a = 4 THEN F32Of(2, 1) ELSE q[a]]],
      grid |-> WalledGrid(walls),
      x |-> c[1], y |-> c[2], result |-> ""] :
        c \in {<<1, 1>>, <<0, 0>>}, q \in [0..3 -> {0 - One, 0, One}],
        walls \in {SelectSeq(<<<<1, 0>>, <<1, 2>>, <<0, 1>>, <<2, 1>>>>,
                              LAMBDA cell : cell \in chosen) :
                        chosen \in SUBSET {<<1, 0>>, <<1, 2>>, <<0, 1>>, <<2, 1>>}}}

\* PheromoneMap::queue_update on the probed map, with a key on the map or
\* one past its last column and a delta of -0.0005 or 3.0
ProbeQueueUpdate ==
    /\ probe.fn = "apply_tick"
    /\ ~probe.applied
    /\ Len(probe.queued) < MaxQueued
    /\ \E key \in {<<0, 0, "Up">>, <<0, 0, "Down">>, <<1, 0, "Stay">>, <<2, 0, "Up">>},
          delta \in {F32Of(0 - 5, 10000), F32Of(3, 1)} :
          probe' = [probe EXCEPT
                       !.map = queue_update(probe.map, key[1], key[2], key[3], delta),
                       !.queued = Append(@, [x |-> key[1], y |-> key[2],
                                             action |-> key[3], delta |-> delta])]
    /\ UNCHANGED <<grid, ants, pheromones_food, pheromones_nest, rl_params, config,
                   history, current_tick_index, last_op, lived, tick_bound>>

\* PheromoneMap::apply_tick on the probed map; after a panic the map is
\* not looked at again
ProbeApplyTick ==
    /\ probe.fn = "apply_tick"
    /\ ~probe.applied
    /\ \E order \in IterationOrders(probe.map.pending_updates) :
          probe' = IF DrainPanics(probe.map)
                   THEN [probe EXCEPT
                            !.before = probe.map.data,
                            !.applied = TRUE,
                            !.panicked = apply_tick(probe.map, order, probe.rate) = IndexPanic]
                   ELSE [probe EXCEPT !.map = apply_tick(probe.map, order, probe.rate),
                                      !.before = probe.map.data,
                                      !.applied = TRUE]
    /\ UNCHANGED <<grid, ants, pheromones_food, pheromones_nest, rl_params, config,
                   history, current_tick_index, last_op, lived, tick_bound>>

\* PheromoneMap::get_best_action on the probed map and grid
ProbeBestAction ==
    /\ probe.fn = "get_best_action"
    /\ probe.result = ""
    /\ probe' = [probe EXCEPT
                    !.result = get_best_action(probe.map, probe.x, probe.y, probe.grid)]
    /\ UNCHANGED <<grid, ants, pheromones_food, pheromones_nest, rl_params, config,
                   history, current_tick_index, last_op, lived, tick_bound>>

InitPheromone ==
    /\ Construct(EmptyScenario)
    /\ probe \in TickInputs \cup BestInputs

SpecPheromone == InitPheromone /\ [][ProbeQueueUpdate \/ ProbeApplyTick \/ ProbeBestAction]_vars

\* ------------------------------------------------------------------------
\* Grid on its own: the four tile queries applied to coordinates on and
\* off sample grids
\* ------------------------------------------------------------------------

\* the largest coordinate queried
MaxCoord == 4

\* Grid::is_walkable, is_lethal, has_food and is_nest on the probed grid
ProbeGridQuery ==
    /\ probe.fn = "grid_query"
    /\ ~probe.done
    /\ probe' = [probe EXCEPT
                    !.done = TRUE,
                    !.is_walkable = Grid_is_walkable(probe.grid, probe.x, probe.y),
                    !.is_lethal = Grid_is_lethal(probe.grid, probe.x, probe.y),
                    !.has_food = Grid_has_food(probe.grid, probe.x, probe.y),
                    !.is_nest = Grid_is_nest(probe.grid, probe.x, probe.y)]
    /\ UNCHANGED <<grid, ants, pheromones_food, pheromones_nest, rl_params, config,
                   history, current_tick_index, last_op, lived, tick_bound>>

\* queries on grids of three shapes holding every tile variant, a
\* FoodSource of amount 0 included
InitGrid ==
    /\ Construct(EmptyScenario)
    /\ probe \in {[fn |-> "grid_query", grid |-> g, x |-> x, y |-> y, done |-> FALSE,
                   is_walkable |-> FALSE, is_lethal |-> FALSE, has_food |-> FALSE, is_nest |-> FALSE] :
                     g \in {new_with_tiles(ExploreScenario.width, ExploreScenario.height,
                                           ExploreScenario.tiles),
                            new_with_tiles(2, 2, <<Tile(0, 0, "FoodSource", 0, None),
                                                   Tile(1, 1, "Nest", 0, None),
                                                   Tile(1, 0, "DeathZone", 0, None),
                                                   Tile(5, 5, "Wall", 0, None)>>),
                            new_with_tiles(1, 3, <<Tile(0, 1, "Wall", 0, None),
                                                   Tile(0, 2, "FoodSource", 3, None)>>)},
                     x \in 0..MaxCoord, y \in 0..MaxCoord}

SpecGrid == InitGrid /\ [][ProbeGridQuery]_vars

\* ------------------------------------------------------------------------
\* compute_ant_density on its own: the counter of one cell while the loop
\* runs over a colony standing on that cell, then one ant leaving it
\* ------------------------------------------------------------------------

\* ants of the largest colony counted: more than a u8 can tell apart
MaxColony == 257

\* one iteration of the for loop of compute_ant_density, for an ant on the
\* probed cell
ProbeDensityCount ==
    /\ probe.fn = "density"
    /\ ~probe.aborted
    /\ probe.counted < probe.colony
    /\ probe' = [probe EXCEPT !.counted = @ + 1,
                              !.density = DensityIncrement(@)]
    /\ UNCHANGED <<grid, ants, pheromones_food, pheromones_nest, rl_params, config,
                   history, current_tick_index, last_op, lived, tick_bound>>

\* the same iteration in a build with overflow checks: += 1 on a counter
\* at its maximum panics
ProbeDensityOverflow ==
    /\ probe.fn = "density"
    /\ ~probe.aborted
    /\ probe.counted < probe.colony
    /\ probe.density + 1 >= U8Modulus
    /\ probe' = [probe EXCEPT !.aborted = TRUE]
    /\ UNCHANGED <<grid, ants, pheromones_food, pheromones_nest, rl_params, config,
                   history, current_tick_index, last_op, lived, tick_bound>>

\* ant_density[idx].saturating_sub(1) for an ant leaving the counted cell
ProbeDensityLeave ==
    /\ probe.fn = "density"
    /\ ~probe.aborted
    /\ ~probe.done
    /\ probe.counted = probe.colony
    /\ probe' = [probe EXCEPT !.done = TRUE, !.left = SaturatingSub(probe.density, 1)]
    /\ UNCHANGED <<grid, ants, pheromones_food, pheromones_nest, rl_params, config,
                   history, current_tick_index, last_op, lived, tick_bound>>

InitDensity ==
    /\ Construct(EmptyScenario)
    /\ probe \in {[fn |-> "density", colony |-> n, counted |-> 0, density |-> 0,
                   aborted |-> FALSE, done |-> FALSE, left |-> 0] : n \in 0..MaxColony}

SpecDensity == InitDensity /\ [][ProbeDensityCount \/ ProbeDensityOverflow \/ ProbeDensityLeave]_vars

\* ------------------------------------------------------------------------
\* Ant::get_target_position on its own, with what game_step and
\* get_best_action make of the destination, on a grid of Default tiles
\* ------------------------------------------------------------------------

\* the grid the probed ant stands on: MaxCoord + 1 cells each way
TargetGrid == new_with_tiles(MaxCoord + 1, MaxCoord + 1, <<>>)

\* the state in which the loop of game_step reaches a lone PICKER standing
\* on (x, y) of TargetGrid
TargetState(x, y) ==
    [grid |-> TargetGrid,
     ants |-> <<PlacedAnt("PICKER", x, y)>>,
     pheromones_food |-> PheromoneMap_new(MaxCoord + 1, MaxCoord + 1),
     pheromones_nest |-> PheromoneMap_new(MaxCoord + 1, MaxCoord + 1),
     ant_density |-> compute_ant_density(TargetGrid, <<PlacedAnt("PICKER", x, y)>>),
     log |-> <<>>]

\* get_target_position for the probed ant and action, the loop body of
\* game_step for that action, and get_best_action on a table of zeros and
\* on a table on which Up and Down are worth less than Left and Right
\* everywhere
ProbeTarget ==
    /\ probe.fn = "get_target_position"
    /\ ~probe.done
    /\ probe' = [probe EXCEPT
                    !.done = TRUE,
                    !.result = get_target_position(PlacedAnt("PICKER", probe.x, probe.y),
                                                   probe.action),
                    !.entry = MoveAnt(TargetState(probe.x, probe.y), 1, probe.action,
                                      <<probe.action, 0>>, config, SyncParams(config),
                                      MaxCoord + 1, MaxCoord + 1).log[1],
                    !.best = get_best_action(PheromoneMap_new(MaxCoord + 1, MaxCoord + 1),
                                             probe.x, probe.y, TargetGrid),
                    !.sideways =
                        get_best_action(
                            [PheromoneMap_new(MaxCoord + 1, MaxCoord + 1) EXCEPT
                                !.data = [x \in 0..MaxCoord |-> [y \in 0..MaxCoord |->
                                    [a \in 0..4 |->
                                        IF a \in {to_usize("Up"), to_usize("Down")}
                                        THEN 0 - One ELSE 0]]]],
                            probe.x, probe.y, TargetGrid)]
    /\ UNCHANGED <<grid, ants, pheromones_food, pheromones_nest, rl_params, config,
                   history, current_tick_index, last_op, lived, tick_bound>>

InitTarget ==
    /\ Construct(EmptyScenario)
    /\ probe \in {[fn |-> "get_target_position", x |-> x, y |-> y, action |-> action,
                   done |-> FALSE, result |-> None, entry |-> None, best |-> "", sideways |-> ""] :
                     x \in 0..MaxCoord, y \in 0..MaxCoord, action \in Action}

SpecTarget == InitTarget /\ [][ProbeTarget]_vars

\* ------------------------------------------------------------------------
\* Grid::new_random on its own: the draws of the three counts and of the
\* nest cell, then place_items attempt by attempt for FoodSource, Wall and
\* DeathZone
\* ------------------------------------------------------------------------

\* the values rng.gen_range(0..extent) is taken to give: the first two
\* coordinates and the last one, which is every coordinate up to extent 3
DrawnCoordinates(extent) == {c \in {0, 1, extent - 1} : c < extent}

\* one iteration of the while loop of the place_items call in progress
ProbePlaceAttempt ==
    /\ probe.fn = "new_random"
    /\ probe.call <= Len(ItemTypes)
    /\ probe.placed < probe.counts[probe.call]
    /\ probe.attempts < probe.counts[probe.call] * AttemptsPerItem
    /\ \E x \in DrawnCoordinates(probe.width), y \in DrawnCoordinates(probe.height),
          amount \in (IF ItemTypes[probe.call] = "FoodSource"
                      THEN {FoodAmountMin, FoodAmountEnd - 1} ELSE {0}) :
          LET r == place_attempt(probe.tiles, probe.width, x, y, probe.nest_idx,
                                 ItemTypes[probe.call], amount)
          IN  probe' = [probe EXCEPT !.tiles = r.tiles,
                                     !.placed = @ + r.placed,
                                     !.attempts = @ + 1]
    /\ UNCHANGED <<grid, ants, pheromones_food, pheromones_nest, rl_params, config,
                   history, current_tick_index, last_op, lived, tick_bound>>

\* the while condition of place_items fails: the call returns and
\* new_random goes on to the next call, or to building the Grid
ProbePlaceReturn ==
    /\ probe.fn = "new_random"
    /\ probe.call <= Len(ItemTypes)
    /\ ~(/\ probe.placed < probe.counts[probe.call]
         /\ probe.attempts < probe.counts[probe.call] * AttemptsPerItem)
    /\ probe' = [probe EXCEPT !.call = @ + 1, !.placed = 0, !.attempts = 0]
    /\ UNCHANGED <<grid, ants, pheromones_food, pheromones_nest, rl_params, config,
                   history, current_tick_index, last_op, lived, tick_bound>>

\* new_random up to the first place_items call: the counts drawn and the
\* nest stored at its drawn cell, on every shape up to 2x2 and on a row
\* long enough for a DeathZone to be requested
InitRandom ==
    /\ Construct(EmptyScenario)
    /\ probe \in UNION {{[fn |-> "new_random", width |-> s[1], height |-> s[2],
                          tiles |-> [DefaultTiles(s[1], s[2]) EXCEPT
                                        ![ny * s[1] + nx] = Tile(nx, ny, "Nest", 0, None)],
                          nest_idx |-> ny * s[1] + nx, counts |-> c,
                          call |-> 1, placed |-> 0, attempts |-> 0] :
                            nx \in DrawnCoordinates(s[1]), ny \in DrawnCoordinates(s[2]),
                            c \in CountChoices(s[1] * s[2])} :
                        s \in {<<1, 1>>, <<2, 1>>, <<1, 2>>, <<2, 2>>, <<11, 1>>}}

SpecRandom == InitRandom /\ [][ProbePlaceAttempt \/ ProbePlaceReturn]_vars

\* ------------------------------------------------------------------------
\* map_editor.rs : MapEditor
\*   tiles[y][x] is kept as tiles[y * width + x]; call is the last
\*   operation called on the editor
\* ------------------------------------------------------------------------

\* MapEditorTileType::all
MapEditorTileTypes == {"Default", "Wall", "Nest", "FoodSource", "DeathZone"}

\* the amount MapEditorTileType::to_tile_type gives a FoodSource
EditorFoodAmount == 1000

\* MapEditor::new
MapEditor_new(width, height) ==
    [fn |-> "map_editor", width |-> width, height |-> height,
     tiles |-> [idx \in 0..(width * height - 1) |-> "Default"],
     selected_tile_type |-> "Wall", nest_count |-> 0, call |-> "new"]

\* MapEditor::set_tile
set_tile(ed, x, y, tile_type) ==
    IF x < ed.width /\ y < ed.height
    THEN LET current == ed.tiles[y * ed.width + x]
             removed == IF current = "Nest" /\ tile_type # "Nest"
                        THEN SaturatingSub(ed.nest_count, 1) ELSE ed.nest_count
             counted == IF current # "Nest" /\ tile_type = "Nest"
                        THEN removed + 1 ELSE removed
         IN  [ed EXCEPT !.nest_count = counted,
                        !.tiles[y * ed.width + x] = tile_type]
    ELSE ed

\* the two loops of fill_all from cell idx on, in row-major order
RECURSIVE FillFrom(_, _, _)
FillFrom(ed, idx, tile_type) ==
    IF idx >= ed.width * ed.height THEN ed
    ELSE LET x == idx % ed.width
             y == idx \div ed.width
             next == IF tile_type = "Nest"
                     THEN (IF ed.nest_count = 0 THEN set_tile(ed, x, y, tile_type) ELSE ed)
                     ELSE set_tile(ed, x, y, tile_type)
         IN  FillFrom(next, idx + 1, tile_type)

\* MapEditor::fill_all
fill_all(ed, tile_type) == FillFrom([ed EXCEPT !.nest_count = 0], 0, tile_type)

\* MapEditor::clear
clear(ed) == fill_all(ed, "Default")

\* MapEditor::is_valid
is_valid(ed) ==
    IF ed.nest_count # 1 THEN FALSE
    ELSE \E idx \in DOMAIN ed.tiles : ed.tiles[idx] = "FoodSource"

\* MapEditor::to_tiles with MapEditorTileType::to_tile_type
to_tiles(ed) ==
    [k \in 1..(ed.width * ed.height) |->
        Tile((k - 1) % ed.width, (k - 1) \div ed.width, ed.tiles[k - 1],
             IF ed.tiles[k - 1] = "FoodSource" THEN EditorFoodAmount ELSE 0, None)]

\* a call of set_tile, with coordinates up to one past the last cell
ProbeSetTile ==
    /\ probe.fn = "map_editor"
    /\ \E x \in 0..probe.width, y \in 0..probe.height, tile_type \in MapEditorTileTypes :
          probe' = [set_tile(probe, x, y, tile_type) EXCEPT !.call = "set_tile"]
    /\ UNCHANGED <<grid, ants, pheromones_food, pheromones_nest, rl_params, config,
                   history, current_tick_index, last_op, lived, tick_bound>>

\* a call of fill_all
ProbeFillAll ==
    /\ probe.fn = "map_editor"
    /\ \E tile_type \in MapEditorTileTypes :
          probe' = [fill_all(probe, tile_type) EXCEPT !.call = "fill_all"]
    /\ UNCHANGED <<grid, ants, pheromones_food, pheromones_nest, rl_params, config,
                   history, current_tick_index, last_op, lived, tick_bound>>

\* a call of clear
ProbeClear ==
    /\ probe.fn = "map_editor"
    /\ probe' = [clear(probe) EXCEPT !.call = "clear"]
    /\ UNCHANGED <<grid, ants, pheromones_food, pheromones_nest, rl_params, config,
                   history, current_tick_index, last_op, lived, tick_bound>>

InitEditor ==
    /\ Construct(EmptyScenario)
    /\ \E s \in {<<1, 1>>, <<2, 1>>, <<2, 2>>} : probe = MapEditor_new(s[1], s[2])

SpecEditor == InitEditor /\ [][ProbeSetTile \/ ProbeFillAll \/ ProbeClear]_vars

\* ------------------------------------------------------------------------
\* interface.rs : Interface, from the dimension screen to the game screen
\* and back.  probe holds the fields of Interface: state, width_input and
\* height_input (as the numbers they parse to), nb_explorers, nb_pickers
\* and nb_fighters (colony), map_editor, is_running, simulation_started,
\* whether ants_game_manager is Some (manager) and, for the properties,
\* the live state with which the game screen opened and whether its manager
\* came from the editor (custom).  The variables of the manager hold None
\* while ants_game_manager is None.  config is Interface.config; the
\* manager's config is a copy of it whenever it is read: it is copied at
\* the editor's launch, at the confirmation of the colony and at the end of
\* every frame of the game screen before the launch, and after the launch
\* its sliders are disabled
\* ------------------------------------------------------------------------

\* Interface::generate_ants
generate_ants(nb_explorers, nb_pickers, nb_fighters) ==
    [k \in 1..(nb_explorers + nb_pickers + nb_fighters) |->
        IF k <= nb_explorers THEN Ant_new("EXPLORER")
        ELSE IF k <= nb_explorers + nb_pickers THEN Ant_new("PICKER")
        ELSE Ant_new("FIGHTER")]

\* the arguments of AntsGameManager::new in EditorAction::Launch
LaunchScenario(ed, cfg) ==
    [ctor |-> "new", width |-> ed.width, height |-> ed.height,
     tiles |-> to_tiles(ed), ants |-> <<>>,
     config |-> cfg, ticks |-> MaxTicksCustom]

\* self.ants_game_manager = Some(manager) for a manager just constructed
Reconstruct(sc) ==
    LET b == Built(sc)
    IN  /\ grid' = b.grid
        /\ ants' = b.ants
        /\ pheromones_food' = b.pheromones_food
        /\ pheromones_nest' = b.pheromones_nest
        /\ rl_params' = b.rl_params
        /\ config' = b.config
        /\ history' = b.history
        /\ current_tick_index' = b.current_tick_index
        /\ last_op' = NoOp(sc.ctor, 0)
        /\ lived' = <<Snapshot(b.grid, b.ants, b.pheromones_food, b.pheromones_nest)>>
        /\ tick_bound' = sc.ticks

\* self.ants_game_manager = None
DropManager ==
    /\ grid' = None
    /\ ants' = None
    /\ pheromones_food' = None
    /\ pheromones_nest' = None
    /\ rl_params' = None
    /\ history' = None
    /\ current_tick_index' = 0
    /\ last_op' = NoOp("none", 0)
    /\ lived' = None
    /\ tick_bound' = 0
    /\ UNCHANGED config

\* Interface::new_with_config for a configuration whose grid is 2x2 and
\* whose colony is one picker, the other values being the defaults
\* with epsilon 0
InitCustom ==
    /\ grid = None
    /\ ants = None
    /\ pheromones_food = None
    /\ pheromones_nest = None
    /\ rl_params = None
    /\ config = Config(0)
    /\ history = None
    /\ current_tick_index = 0
    /\ last_op = NoOp("none", 0)
    /\ lived = None
    /\ tick_bound = 0
    /\ probe = [fn |-> "interface", state |-> "DimensionInput",
                width_input |-> 2, height_input |-> 2, colony |-> <<0, 1, 0>>,
                map_editor |-> None, manager |-> FALSE, is_running |-> FALSE,
                simulation_started |-> FALSE, opened |-> None, custom |-> FALSE]

\* the text fields of the dimension screen edited to 2 and 2 or to 0 and 2
EditDimensions ==
    /\ probe.fn = "interface"
    /\ probe.state = "DimensionInput"
    /\ \E d \in {<<2, 2>>, <<0, 2>>} :
          probe' = [probe EXCEPT !.width_input = d[1], !.height_input = d[2]]
    /\ UNCHANGED <<grid, ants, pheromones_food, pheromones_nest, rl_params, config,
                   history, current_tick_index, last_op, lived, tick_bound>>

\* Continuer: the next screen when both fields parse to numbers above 0;
\* otherwise the click changes nothing
Continuer ==
    /\ probe.fn = "interface"
    /\ probe.state = "DimensionInput"
    /\ probe.width_input > 0 /\ probe.height_input > 0
    /\ probe' = [probe EXCEPT !.state = "MapTypeSelection"]
    /\ UNCHANGED <<grid, ants, pheromones_food, pheromones_nest, rl_params, config,
                   history, current_tick_index, last_op, lived, tick_bound>>

\* Retour aux Dimensions
RetourAuxDimensions ==
    /\ probe.fn = "interface"
    /\ probe.state = "MapTypeSelection"
    /\ probe' = [probe EXCEPT !.state = "DimensionInput"]
    /\ UNCHANGED <<grid, ants, pheromones_food, pheromones_nest, rl_params, config,
                   history, current_tick_index, last_op, lived, tick_bound>>

\* Map Aleatoire: the manager is dropped, the colony screen follows
MapAleatoire ==
    /\ probe.fn = "interface"
    /\ probe.state = "MapTypeSelection"
    /\ probe' = [probe EXCEPT !.state = "AntTypeSelection", !.manager = FALSE]
    /\ DropManager

\* Map Personnalisee: a new editor of the dimensions typed
MapPersonnalisee ==
    /\ probe.fn = "interface"
    /\ probe.state = "MapTypeSelection"
    /\ probe' = [probe EXCEPT
                    !.state = "MapEditor",
                    !.map_editor = MapEditor_new(probe.width_input, probe.height_input)]
    /\ UNCHANGED <<grid, ants, pheromones_food, pheromones_nest, rl_params, config,
                   history, current_tick_index, last_op, lived, tick_bound>>

\* a tile type button of the editor, Nid or Nourriture
SelectTileType ==
    /\ probe.fn = "interface"
    /\ probe.state = "MapEditor"
    /\ \E tile_type \in {"Nest", "FoodSource"} :
          probe' = [probe EXCEPT !.map_editor.selected_tile_type = tile_type]
    /\ UNCHANGED <<grid, ants, pheromones_food, pheromones_nest, rl_params, config,
                   history, current_tick_index, last_op, lived, tick_bound>>

\* a click on the first or on the last cell of the editor's grid: set_tile
\* with the selected tile type
PaintCell ==
    /\ probe.fn = "interface"
    /\ probe.state = "MapEditor"
    /\ \E cell \in {<<0, 0>>, <<probe.map_editor.width - 1, probe.map_editor.height - 1>>} :
          probe' = [probe EXCEPT
                       !.map_editor = set_tile(@, cell[1], cell[2], @.selected_tile_type)]
    /\ UNCHANGED <<grid, ants, pheromones_food, pheromones_nest, rl_params, config,
                   history, current_tick_index, last_op, lived, tick_bound>>

\* Tout effacer (clear) or Remplir vide (fill_all of Default)
EraseAll ==
    /\ probe.fn = "interface"
    /\ probe.state = "MapEditor"
    /\ \E erased \in {clear(probe.map_editor), fill_all(probe.map_editor, "Default")} :
          probe' = [probe EXCEPT !.map_editor = erased]
    /\ UNCHANGED <<grid, ants, pheromones_food, pheromones_nest, rl_params, config,
                   history, current_tick_index, last_op, lived, tick_bound>>

\* EditorAction::Launch, by Confirmer la Carte whatever the editor holds or
\* by LANCER LA PARTIE, which is shown when is_valid: the manager is
\* AntsGameManager::new of the editor's tiles and an empty ant list, the
\* editor is closed and the colony screen follows
EditorLaunch ==
    /\ probe.fn = "interface"
    /\ probe.state = "MapEditor"
    /\ \E manual_launch \in BOOLEAN, auto_launch \in {FALSE, is_valid(probe.map_editor)} :
          auto_launch \/ manual_launch
    /\ Reconstruct(LaunchScenario(probe.map_editor, config))
    /\ probe' = [probe EXCEPT !.state = "AntTypeSelection", !.manager = TRUE,
                              !.map_editor = None]

\* EditorAction::GoBack, by Retour au Choix
EditorGoBack ==
    /\ probe.fn = "interface"
    /\ probe.state = "MapEditor"
    /\ probe' = [probe EXCEPT !.state = "MapTypeSelection", !.map_editor = None]
    /\ UNCHANGED <<grid, ants, pheromones_food, pheromones_nest, rl_params, config,
                   history, current_tick_index, last_op, lived, tick_bound>>

\* the sliders of the colony screen moved to one of three settings
\* (explorers, pickers, fighters)
SetColony ==
    /\ probe.fn = "interface"
    /\ probe.state = "AntTypeSelection"
    /\ \E c \in {<<0, 0, 0>>, <<0, 1, 0>>, <<1, 1, 0>>} :
          probe' = [probe EXCEPT !.colony = c]
    /\ UNCHANGED <<grid, ants, pheromones_food, pheromones_nest, rl_params, config,
                   history, current_tick_index, last_op, lived, tick_bound>>

\* Vers le Plateau de Jeu.  With a manager (built at the editor's launch)
\* the generated ants replace its list and are placed at the nest; without
\* one the manager is new_game_mode_random of the typed dimensions and the
\* generated ants, for three outcomes of the rng: the nest on the first or
\* on the last cell and one FoodSource, placed at the first attempt or
\* after an attempt on the first cell.  The parameters are synchronised and
\* the game screen opens, paused
ConfirmColony ==
    /\ probe.fn = "interface"
    /\ probe.state = "AntTypeSelection"
    /\ LET generated == generate_ants(probe.colony[1], probe.colony[2], probe.colony[3])
       IN  \/ /\ probe.manager
              /\ LET a == SpawnAll(generated, grid)
                 IN  /\ ants' = a
                     /\ probe' = [probe EXCEPT
                                     !.state = "Game",
                                     !.is_running = FALSE,
                                     !.simulation_started = FALSE,
                                     !.custom = TRUE,
                                     !.opened = Snapshot(grid, a, pheromones_food,
                                                         pheromones_nest)]
                     /\ lived' = <<Snapshot(grid, a, pheromones_food, pheromones_nest)>>
              /\ rl_params' = SyncParams(config)
              /\ last_op' = NoOp("confirm_colony", 0)
              /\ UNCHANGED <<grid, pheromones_food, pheromones_nest, config, history,
                             current_tick_index, tick_bound>>
           \/ /\ ~probe.manager
              /\ \E nest \in {<<0, 0>>, <<probe.width_input - 1, probe.height_input - 1>>} :
                 \E food \in {<<<<1, 0, FoodAmountMin>>>>,
                              <<<<0, 0, FoodAmountMin>>, <<1, 0, FoodAmountMin>>>>} :
                    LET sc == [ctor |-> "new_game_mode_random",
                               width |-> probe.width_input, height |-> probe.height_input,
                               nest |-> nest, counts |-> <<1, 0, 0>>,
                               draws |-> <<food, <<>>, <<>>>>,
                               ants |-> generated, config |-> config,
                               ticks |-> MaxTicksCustom]
                    IN  /\ RandomOutcome(sc)
                        /\ Reconstruct(sc)
                        /\ probe' = [probe EXCEPT
                                        !.state = "Game",
                                        !.manager = TRUE,
                                        !.is_running = FALSE,
                                        !.simulation_started = FALSE,
                                        !.custom = FALSE,
                                        !.opened = Snapshot(Built(sc).grid, Built(sc).ants,
                                                            Built(sc).pheromones_food,
                                                            Built(sc).pheromones_nest)]

\* Retour on the colony screen: back to the choice of the map, the manager
\* kept
Retour ==
    /\ probe.fn = "interface"
    /\ probe.state = "AntTypeSelection"
    /\ probe' = [probe EXCEPT !.state = "MapTypeSelection"]
    /\ UNCHANGED <<grid, ants, pheromones_food, pheromones_nest, rl_params, config,
                   history, current_tick_index, last_op, lived, tick_bound>>

\* a frame of the game screen before the launch in which the sliders of
\* alpha, gamma and epsilon were moved, to 0.5, 0.9 and 0 or to 0.1, 0.99
\* and 1: show_game ends by copying Interface.config and the three
\* parameters into the manager
SetParameters ==
    /\ probe.fn = "interface"
    /\ probe.state = "Game"
    /\ ~probe.simulation_started
    /\ \E c \in {<<Half, F32Of(9, 10), 0>>, <<F32Of(1, 10), F32Of(99, 100), One>>} :
          LET synced == [config EXCEPT !.alpha = c[1], !.gamma = c[2], !.epsilon = c[3]]
          IN  /\ config' = synced
              /\ rl_params' = SyncParams(synced)
    /\ last_op' = NoOp("sync_config", current_tick_index)
    /\ UNCHANGED <<grid, ants, pheromones_food, pheromones_nest, history,
                   current_tick_index, lived, probe, tick_bound>>

\* LANCER LA SIMULATION
Launch ==
    /\ probe.fn = "interface"
    /\ probe.state = "Game"
    /\ ~probe.simulation_started
    /\ probe' = [probe EXCEPT !.simulation_started = TRUE, !.is_running = TRUE]
    /\ UNCHANGED <<grid, ants, pheromones_food, pheromones_nest, rl_params, config,
                   history, current_tick_index, last_op, lived, tick_bound>>

\* PAUSE / REPRENDRE
PauseResume ==
    /\ probe.fn = "interface"
    /\ probe.state = "Game"
    /\ probe.simulation_started
    /\ probe' = [probe EXCEPT !.is_running = ~probe.is_running]
    /\ UNCHANGED <<grid, ants, pheromones_food, pheromones_nest, rl_params, config,
                   history, current_tick_index, last_op, lived, tick_bound>>

\* Interface::update on the game screen while the simulation runs: one
\* game_step
CustomGameStep ==
    /\ probe.fn = "interface"
    /\ probe.state = "Game"
    /\ probe.is_running
    /\ GameStep

\* the timeline of the game screen: the slider moved to another snapshot,
\* or one of the buttons -1 and +1; the simulation is paused and
\* restore_snapshot called
CustomRestore ==
    /\ probe.fn = "interface"
    /\ probe.state = "Game"
    /\ last_op.op # "panic"
    /\ \E index \in 0..(Len(history) - 1) :
          /\ index # current_tick_index
          /\ RestoreSnapshot(index)
    /\ probe' = [probe EXCEPT !.is_running = FALSE]

\* Quitter / Reset: the manager is dropped and the first screen shown
QuitReset ==
    /\ probe.fn = "interface"
    /\ probe.state = "Game"
    /\ probe' = [probe EXCEPT !.state = "DimensionInput", !.manager = FALSE,
                              !.is_running = FALSE, !.simulation_started = FALSE,
                              !.opened = None, !.custom = FALSE]
    /\ DropManager

NextCustom ==
    \/ EditDimensions
    \/ Continuer
    \/ RetourAuxDimensions
    \/ MapAleatoire
    \/ MapPersonnalisee
    \/ SelectTileType
    \/ PaintCell
    \/ EraseAll
    \/ EditorLaunch
    \/ EditorGoBack
    \/ SetColony
    \/ ConfirmColony
    \/ Retour
    \/ SetParameters
    \/ Launch
    \/ PauseResume
    \/ CustomGameStep
    \/ CustomRestore
    \/ QuitReset

SpecCustom == InitCustom /\ [][NextCustom]_vars

\* ------------------------------------------------------------------------
\* Two managers built alike and stepped side by side.  The variables hold
\* the first; probe holds the live state of the second (other), whether
\* both have consumed the same draws so far (same_draws) and the orders in
\* which the four HashMaps yielded their keys in the last step (orders).
\* Each manager takes its own draws from the rng, and each HashMap yields
\* its keys in its own order
\* ------------------------------------------------------------------------

\* InitTwin: the map of ExploreScenario with its two ants on the nest or
\* on the nest and the cell beside it, for epsilon 0, 0.05 and 1
InitTwin ==
    /\ \E epsilon \in {0, F32Of(1, 20), One} :
          \E colony \in {ExploreScenario.ants,
                         <<PlacedAnt("EXPLORER", 1, 0), PlacedAnt("PICKER", 2, 0)>>} :
              Construct([ExploreScenario EXCEPT !.ants = colony,
                                                !.config = Config(epsilon)])
    /\ probe = [fn |-> "twin", other |-> Live, same_draws |-> TRUE, orders |-> <<>>]

\* the end of game_step in both managers: st and other_st are the states
\* their per-ant loops left, same tells whether they consumed the same
\* draws in this step
TwinDrain(st, other_st, same) ==
    \E order_food \in IterationOrders(st.pheromones_food.pending_updates) :
    \E order_nest \in IterationOrders(st.pheromones_nest.pending_updates) :
    \E other_food \in IterationOrders(other_st.pheromones_food.pending_updates) :
    \E other_nest \in IterationOrders(other_st.pheromones_nest.pending_updates) :
        /\ EndOfStep(st, AfterTicks(st, config, order_food, order_nest))
        /\ probe' = [probe EXCEPT
                         !.other = AfterTicks(other_st, config, other_food, other_nest),
                         !.same_draws = @ /\ same,
                         !.orders = <<order_food, order_nest, other_food, other_nest>>]

\* game_step called on both managers, followed for as long as the two have
\* consumed the same draws or epsilon is 0
TwinStep ==
    /\ probe.fn = "twin"
    /\ probe.same_draws \/ config.epsilon = 0
    /\ last_op.op # "panic"
    /\ current_tick_index < tick_bound
    /\ \E raws \in [Acting(manage_smart_spawn(ants, grid, config,
                                              compute_ant_density(grid, ants),
                                              grid.width))
                    -> RawDraws] :
       \E other_raws \in [Acting(manage_smart_spawn(
                                     probe.other.ants, probe.other.grid, config,
                                     compute_ant_density(probe.other.grid,
                                                         probe.other.ants),
                                     probe.other.grid.width))
                          -> RawDraws] :
          TwinDrain(StepLoop(grid, ants, pheromones_food, pheromones_nest, config,
                             [i \in DOMAIN raws |-> Drawn(raws[i], config.epsilon)]),
                    StepLoop(probe.other.grid, probe.other.ants,
                             probe.other.pheromones_food, probe.other.pheromones_nest,
                             config,
                             [i \in DOMAIN other_raws |->
                                 Drawn(other_raws[i], config.epsilon)]),
                    [i \in DOMAIN raws |-> Consumed(raws[i], config.epsilon)]
                        = [i \in DOMAIN other_raws |->
                              Consumed(other_raws[i], config.epsilon)])

SpecTwin == InitTwin /\ [][TwinStep]_vars

\* ------------------------------------------------------------------------
\* Properties
\* ------------------------------------------------------------------------

\* positioned ants standing on cell (x, y)
AntsOn(a, x, y) == {i \in 1..Len(a) : a[i].position = Some(x, y)}

Cells(g) == {<<x, y>> : x \in 0..(g.width - 1), y \in 0..(g.height - 1)}

\* C1: after any game_step, whatever the construction path, no grid cell
\* holds more than 10 positioned ants.
C1_DensityCap ==
    last_op.op = "game_step" =>
        \A c \in Cells(grid) : Cardinality(AntsOn(ants, c[1], c[2])) <= MaxAntsPerCell

\* C2: restore_snapshot(k) with k inside the history makes the live grid,
\* ants and both pheromone maps equal to the state that was live right
\* after the k-th game_step of the current branch (k = 0: construction),
\* and sets the current index to k.
C2_RestoreRoundTrip ==
    [][(last_op'.op = "restore_snapshot" /\ last_op'.index < Len(history)) =>
          /\ Live' = lived[last_op'.index + 1]
          /\ current_tick_index' = last_op'.index]_vars

\* a restore went back to a tick that is not the tail and whose state
\* differs from the tail's
C2_Witness ==
    /\ last_op.op = "restore_snapshot"
    /\ last_op.index + 1 < Len(history)
    /\ current_tick_index = last_op.index
    /\ Live # history[Len(history)]
    /\ Live = lived[last_op.index + 1]

\* C3: a game_step taken at index k below the tail discards every snapshot
\* stored after k, keeps snapshots 0..k, leaves exactly k+2 entries with
\* the new snapshot at index k+1, and makes k+1 the current index.
C3_BranchTruncation ==
    [][(last_op'.op = "game_step" /\ current_tick_index < Len(history) - 1) =>
          LET k == current_tick_index
          IN  /\ Len(history') = k + 2
              /\ SubSeq(history', 1, k + 1) = SubSeq(history, 1, k + 1)
              /\ history'[k + 2] = Live'
              /\ current_tick_index' = k + 1]_vars

\* a game_step has just overwritten a recorded future
C3_Witness ==
    /\ last_op.op = "game_step"
    /\ last_op.truncated
    /\ Len(history) = last_op.index + 2
    /\ current_tick_index = last_op.index + 1

\* the tick at which the single picker of the termination run picks the
\* food up: it acts at ticks 1, 12 and 23 (every seconds_for_movement + 1
\* ticks) and tries Up, Left, Right in turn
TerminationTick == 1 + 2 * (Ant_new("PICKER").seconds_for_movement + 1)

InTerminationRun ==
    /\ config = TerminationScenario.config
    /\ history[1].ants = TerminationScenario.ants
    /\ history[1].grid = new_with_tiles(2, 1, TerminationScenario.tiles)

\* the manager is finished now and was not after any earlier tick >= 1 of
\* the branch: the moment a step-then-test loop stops
FirstFinished ==
    /\ current_tick_index >= 1
    /\ is_game_finished(grid, ants)
    /\ \A j \in 1..(current_tick_index - 1) :
           ~is_game_finished(history[j + 1].grid, history[j + 1].ants)

\* C4 as claimed: in the termination scenario the loop stops with the food
\* amount at 0 and the nest's stored_food at 100, after one pickup and one
\* deposit.
C4_TerminationAsClaimed ==
    (InTerminationRun /\ FirstFinished) =>
        /\ grid.tiles[1].amount = 0
        /\ grid.tiles[0].stored_food = 100

\* C4 amended: in the termination scenario the loop stops after exactly 23
\* steps, with the food amount at 0, the picker RETURNING with charge 100
\* on the food cell, and the nest's stored_food still 0: one pickup and no
\* deposit; from that tick on the manager stays finished.
C4_TerminationAmended ==
    InTerminationRun =>
        /\ FirstFinished =>
              /\ current_tick_index = TerminationTick
              /\ grid.tiles[1].amount = 0
              /\ grid.tiles[0].stored_food = 0
              /\ ants[1].mode = "RETURNING"
              /\ ants[1].current_charge = 100
              /\ ants[1].position = Some(1, 0)
        /\ (current_tick_index >= TerminationTick) = (current_tick_index >= 1
                                                       /\ is_game_finished(grid, ants))

C4_Witness ==
    /\ InTerminationRun
    /\ FirstFinished
    /\ last_op.op = "game_step"
    /\ Len(last_op.log) = 1
    /\ last_op.log[1].event = "pickup"

\* C5: construction leaves one snapshot and index 0; every game_step
\* pushes exactly one snapshot, the live state, and points the index at the
\* last position; taken at the tail it lengthens the history by one and
\* keeps all earlier snapshots, so n steps without a restore give n+1
\* snapshots and index n.
C5_OneSnapshotPerStep ==
    /\ Len(history) = 1
    /\ current_tick_index = 0
    /\ [][last_op'.op = "game_step" =>
             /\ current_tick_index' = Len(history') - 1
             /\ history'[Len(history')] = Live'
             /\ (current_tick_index = Len(history) - 1 =>
                    /\ Len(history') = Len(history) + 1
                    /\ current_tick_index' = current_tick_index + 1
                    /\ SubSeq(history', 1, Len(history)) = history)]_vars

\* several steps in a row at the tail
C5_Witness ==
    /\ last_op.op = "game_step"
    /\ ~last_op.truncated
    /\ Len(history) >= 4
    /\ current_tick_index = Len(history) - 1

\* C6: restore_snapshot(index) with index >= history length changes
\* neither grid, ants, pheromone maps, history nor current index.
C6_RestoreOutOfRange ==
    [][(last_op'.op = "restore_snapshot" /\ last_op'.index >= Len(history)) =>
          UNCHANGED <<grid, ants, pheromones_food, pheromones_nest,
                      history, current_tick_index>>]_vars

\* an out-of-range restore was made while the live state was not the tail
C6_Witness ==
    /\ last_op.op = "restore_snapshot"
    /\ last_op.index >= Len(history)
    /\ current_tick_index + 1 < Len(history)
    /\ Live # history[Len(history)]

\* C7: is_game_finished() is true exactly when no ant has a position (an
\* empty collection included) or no FoodSource tile has amount > 0.
C7_FinishedIff ==
    is_game_finished(grid, ants) <=>
        \/ {i \in DOMAIN ants : ants[i].position # None} = {}
        \/ {idx \in DOMAIN grid.tiles :
               grid.tiles[idx].tile_type = "FoodSource" /\ grid.tiles[idx].amount >= 1} = {}

\* finished through exhausted food while an ant is still on the map and a
\* FoodSource tile (now empty) exists
C7_Witness ==
    /\ is_game_finished(grid, ants)
    /\ \E i \in DOMAIN ants : ants[i].position # None
    /\ \E idx \in DOMAIN grid.tiles : grid.tiles[idx].tile_type = "FoodSource"
    /\ last_op.op = "game_step"

\* C8: queue_update leaves the visible Q-table alone: at the end of the
\* per-ant phase both tables are the pre-tick tables, and every ant that
\* acted read its current Q, its greedy action and its max_next_q from the
\* pre-tick values.
C8_PreTickReads ==
    [][last_op'.op = "game_step" =>
          /\ last_op'.visible_food = pheromones_food.data
          /\ last_op'.visible_nest = pheromones_nest.data
          /\ \A k \in DOMAIN last_op'.log :
                LET e == last_op'.log[k]
                    map == IF e.mode = "FINDING" THEN pheromones_food ELSE pheromones_nest
                IN  /\ e.q_curr = get_q(map, e.x, e.y, e.action)
                    /\ e.draw = "greedy" => e.action = get_best_action(map, e.x, e.y, grid)
                    /\ e.max_next_q = IF e.is_out \/ e.is_lethal THEN 0
                                      ELSE get_max_q(map, e.nx, e.ny)]_vars

\* two ants acted in one tick, the later one reading the very slot the
\* earlier one had queued a non-zero delta for
C8_Witness ==
    /\ last_op.op = "game_step"
    /\ \E j, k \in DOMAIN last_op.log :
          /\ j < k
          /\ last_op.log[j].mode = last_op.log[k].mode
          /\ last_op.log[j].x = last_op.log[k].x
          /\ last_op.log[j].y = last_op.log[k].y
          /\ last_op.log[j].action = last_op.log[k].action
          /\ last_op.log[j].delta # 0

\* the claim's snap of v x factor: a product of absolute value below 0.001
\* becomes 0, any other is kept
SnapProduct(v, factor) ==
    LET product == FMul(v, factor)
    IN  IF 0 - SnapThreshold < product /\ product < SnapThreshold THEN 0 ELSE product

\* the sum of the deltas queued for one cell-action by the first k calls,
\* added up in the order of the calls
RECURSIVE SumQueued(_, _, _, _, _)
SumQueued(queued, k, x, y, a) ==
    IF k = 0 THEN 0
    ELSE IF queued[k].x = x /\ queued[k].y = y /\ to_usize(queued[k].action) = a
         THEN FAdd(SumQueued(queued, k - 1, x, y, a), queued[k].delta)
         ELSE SumQueued(queued, k - 1, x, y, a)

\* C9: apply_tick(rate) sets every cell-action value v to
\* snap((v + the deltas queued for it) x (1 - rate)), leaves no value with
\* 0 < |v| < 0.001, and empties the pending buffer.
C9_ApplyTick ==
    (probe.fn = "apply_tick" /\ probe.applied /\ ~probe.panicked) =>
        /\ \A x \in 0..(probe.map.width - 1), y \in 0..(probe.map.height - 1), a \in 0..4 :
              /\ probe.map.data[x][y][a] =
                    SnapProduct(FAdd(probe.before[x][y][a],
                                     SumQueued(probe.queued, Len(probe.queued), x, y, a)),
                                FSub(One, probe.rate))
              /\ ~(0 < Abs(probe.map.data[x][y][a])
                   /\ Abs(probe.map.data[x][y][a]) < SnapThreshold)
        /\ probe.map.pending_updates = EmptyPending

\* two deltas accumulated on one slot, a negative value snapped to zero and
\* another value surviving the evaporation
C9_Witness ==
    /\ probe.fn = "apply_tick"
    /\ probe.applied
    /\ ~probe.panicked
    /\ Len(probe.queued) = 2
    /\ probe.queued[1].x = probe.queued[2].x
    /\ probe.queued[1].action = probe.queued[2].action
    /\ probe.rate = F32Of(1, 100)
    /\ FAdd(probe.before[0][0][0], SumQueued(probe.queued, 2, 0, 0, 0)) < 0
    /\ probe.map.data[0][0][0] = 0
    /\ probe.map.data[1][0][4] > 0

\* the movement actions whose destination from (x, y) is an on-grid,
\* walkable cell
LegalMoves(g, x, y) ==
    {a \in {"Up", "Down", "Left", "Right"} :
        LET n == get_target_position(PlacedAnt("PICKER", x, y), a)
        IN  n[1] < g.width /\ n[2] < g.height /\ g.tiles[n[2] * g.width + n[1]].tile_type # "Wall"}

\* C10: get_best_action returns, among the movement actions with an
\* on-grid walkable destination, the first in the order Up, Down, Left,
\* Right that attains the maximum stored Q-value; Up when all four are
\* legal and equal; never Stay while a movement action is legal.
C10_BestAction ==
    (probe.fn = "get_best_action" /\ probe.result # "") =>
        LET legal == LegalMoves(probe.grid, probe.x, probe.y)
            q(a) == probe.map.data[probe.x][probe.y][to_usize(a)]
        IN  legal # {} =>
              /\ probe.result \in legal
              /\ \A a \in legal : q(a) <= q(probe.result)
              /\ \A a \in legal : q(a) = q(probe.result) => to_usize(probe.result) <= to_usize(a)
              /\ (Cardinality(legal) = 4 /\ \A a \in legal : q(a) = q("Up")) =>
                     probe.result = "Up"

\* a tie at the maximum between two legal actions, neither of them Up,
\* while Stay holds a higher value
C10_Witness ==
    /\ probe.fn = "get_best_action"
    /\ probe.result = "Left"
    /\ {"Left", "Right"} \subseteq LegalMoves(probe.grid, probe.x, probe.y)
    /\ probe.map.data[probe.x][probe.y][2] = probe.map.data[probe.x][probe.y][3]
    /\ probe.map.data[probe.x][probe.y][4] > probe.map.data[probe.x][probe.y][2]

\* the four coordinates next to (x, y), as integers: those of a cell on
\* the x = 0 column or the y = 0 row include coordinates off the grid
Neighbours(x, y) == {<<x, y - 1>>, <<x, y + 1>>, <<x - 1, y>>, <<x + 1, y>>}

\* c is a cell of the grid and its tile is not a Wall
WalkableOnGrid(g, c) ==
    /\ c[1] \in 0..(g.width - 1)
    /\ c[2] \in 0..(g.height - 1)
    /\ g.tiles[c[2] * g.width + c[1]].tile_type # "Wall"

\* C11: for every cell (x, y), the cells of the x = 0 column and the y = 0
\* row included, when none of (x, y-1), (x, y+1), (x-1, y), (x+1, y) is a
\* walkable on-grid cell, get_best_action(x, y, grid) returns Stay.
C11_EnclosedStay ==
    (probe.fn = "get_best_action" /\ probe.result # "") =>
        ((\A c \in Neighbours(probe.x, probe.y) : ~WalkableOnGrid(probe.grid, c))
            => probe.result = "Stay")

\* the ant collection right after the spawn step of a game_step begun with
\* ants a on grid g
AfterSpawn(a, g, cfg) == manage_smart_spawn(a, g, cfg, compute_ant_density(g, a), g.width)

\* the ants the spawn step of such a game_step turns from unpositioned to
\* positioned
SpawnedBy(a, g, cfg) ==
    {i \in 1..Len(a) : a[i].position = None /\ AfterSpawn(a, g, cfg)[i].position # None}

\* the ants with an entry in the log of a tick: those that chose an action
ActedIn(log) == {log[k].ant : k \in 1..Len(log)}

\* C12: every ant the spawn step of a game_step turns from unpositioned to
\* positioned, by the preferred-explorer path, the any-ant path or the
\* fallback path, is at the nest with mode FINDING, current_charge 0 and
\* cooldown 2 right after the spawn step, and chooses no action in the
\* tick it is spawned nor in the following tick.
C12_SpawnedAntWaits ==
    [][last_op'.op = "game_step" =>
          /\ \A i \in SpawnedBy(ants, grid, config) :
                LET ant == AfterSpawn(ants, grid, config)[i]
                IN  /\ ant.position = get_nest_position(grid)
                    /\ ant.mode = "FINDING"
                    /\ ant.current_charge = 0
                    /\ ant.cooldown = SpawnCooldown
                    /\ i \notin ActedIn(last_op'.log)
          /\ current_tick_index >= 1 =>
                \A i \in SpawnedBy(lived[current_tick_index].ants,
                                   lived[current_tick_index].grid, config) :
                    i \notin ActedIn(last_op'.log)]_vars

\* the positioned ants of a collection
Positioned(a) == {i \in 1..Len(a) : a[i].position # None}

\* the ants standing on the nest cell of g
OnNest(a, g) ==
    IF get_nest_position(g) = None THEN {}
    ELSE AntsOn(a, get_nest_position(g)[1], get_nest_position(g)[2])

\* C13: a game_step that begins with the number of positioned ants at or
\* above nest_capacity, or with 10 or more ants on the nest cell, spawns no
\* ant: every ant unpositioned at the start of the tick is unpositioned at
\* its end.
C13_NoSpawnWhenFull ==
    [][(/\ last_op'.op = "game_step"
        /\ \/ Cardinality(Positioned(ants)) >= config.nest_capacity
           \/ Cardinality(OnNest(ants, grid)) >= MaxAntsPerCell) =>
          /\ SpawnedBy(ants, grid, config) = {}
          /\ \A i \in 1..Len(ants) :
                ants[i].position = None => ants'[i].position = None]_vars

\* C14: the number of positioned ants never exceeds nest_capacity, after
\* construction and after any game_step.
C14_ActiveCap == Cardinality(Positioned(ants)) <= config.nest_capacity

\* the first index of a set of ant indices, 0 when the set is empty
FirstOf(S) == IF S = {} THEN 0 ELSE CHOOSE i \in S : \A j \in S : i <= j

\* the ant the selection rule names for a colony a: with fewer than 3
\* explorers positioned the first unpositioned EXPLORER if there is one,
\* otherwise the first unpositioned ant; 0 when no ant is waiting
ExpectedSpawn(a) ==
    LET waiting == {i \in 1..Len(a) : a[i].position = None}
        explorers == {i \in waiting : a[i].ant_type = "EXPLORER"}
        active_explorers == {i \in Positioned(a) : a[i].ant_type = "EXPLORER"}
    IN  IF Cardinality(active_explorers) < MIN_EXPLORERS_ACTIVE /\ explorers # {}
        THEN FirstOf(explorers)
        ELSE FirstOf(waiting)

\* the spawn admission passes for colony a on grid g
AdmissionPasses(a, g, cfg) ==
    /\ Cardinality(Positioned(a)) < cfg.nest_capacity
    /\ get_nest_position(g) # None
    /\ Cardinality(OnNest(a, g)) < MaxAntsPerCell

\* C15: when spawn admission passes, the ant spawned is, with fewer than 3
\* EXPLORER ants positioned, the first unpositioned EXPLORER in collection
\* order if one exists and otherwise the first unpositioned ant of any
\* type; with 3 or more explorers positioned, the first unpositioned ant of
\* any type; at most one ant is spawned per game_step.
C15_SpawnSelection ==
    [][last_op'.op = "game_step" =>
          /\ Cardinality(SpawnedBy(ants, grid, config)) <= 1
          /\ \A i \in 1..Len(ants) :
                (ants[i].position = None /\ ants'[i].position # None)
                    => i \in SpawnedBy(ants, grid, config)
          /\ AdmissionPasses(ants, grid, config) =>
                SpawnedBy(ants, grid, config) = {ExpectedSpawn(ants)} \ {0}]_vars

\* with the explorer quota unmet a step has brought out an EXPLORER from
\* behind a waiting PICKER, and with the quota met a later step has brought
\* out that PICKER
C15_Witness ==
    /\ last_op.op = "game_step"
    /\ current_tick_index > 1
    /\ Len(ants) >= 2
    /\ lived[1].ants[1].position = None
    /\ lived[1].ants[1].ant_type = "PICKER"
    /\ lived[2].ants[1].position = None
    /\ lived[2].ants[2].position # None
    /\ lived[2].ants[2].ant_type = "EXPLORER"
    /\ LET before == lived[current_tick_index]
       IN  /\ Cardinality({i \in Positioned(before.ants) :
                              before.ants[i].ant_type = "EXPLORER"}) >= MIN_EXPLORERS_ACTIVE
           /\ before.ants[1].position = None
           /\ ants[1].position # None

\* the draws a tick consumed, read back from its log
DrawsOf(log) ==
    [i \in ActedIn(log) |-> log[CHOOSE k \in 1..Len(log) : log[k].ant = i].draw]

\* the pending updates of the two maps at the end of the per-ant loop of
\* such a game_step
PendingAfterLoop(s, cfg, draws) ==
    LET st == StepLoop(s.grid, s.ants, s.pheromones_food, s.pheromones_nest, cfg, draws)
    IN  <<st.pheromones_food.pending_updates, st.pheromones_nest.pending_updates>>

\* C16: game_step is a deterministic function of the pre-step state, the
\* configuration and the draws consumed by the epsilon-greedy choice: two
\* managers that start in equal states with equal configuration and have
\* consumed the same draws have equal grid, ants and pheromone maps after
\* every step, whatever the orders in which their HashMaps are drained;
\* with epsilon = 0 they are equal whatever the rng gave each of them.
C16_Deterministic ==
    probe.fn = "twin" =>
        /\ probe.same_draws => probe.other = Live
        /\ config.epsilon = 0 => probe.other = Live

\* both managers have taken a step in which their two ants drew different
\* random actions, the same in both managers, and the HashMap of the
\* second yielded its pending keys in another order than that of the first
C16_Witness ==
    /\ probe.fn = "twin"
    /\ probe.same_draws
    /\ last_op.op = "game_step"
    /\ Len(last_op.log) >= 2
    /\ last_op.log[1].draw # "greedy"
    /\ last_op.log[2].draw # "greedy"
    /\ last_op.log[1].draw # last_op.log[2].draw
    /\ last_op.log[1].mode = last_op.log[2].mode
    /\ Len(probe.orders[1]) >= 2
    /\ probe.orders[3] # probe.orders[1]
    /\ probe.other = Live

\* the sum of the deltas the ants of the given mode queued for a key of
\* their map, over the first k log entries and in their order
RECURSIVE SumDeltas(_, _, _, _)
SumDeltas(log, mode, key, k) ==
    IF k = 0 THEN 0
    ELSE IF log[k].mode = mode /\ <<log[k].x, log[k].y, to_usize(log[k].action)>> = key
         THEN FAdd(SumDeltas(log, mode, key, k - 1), log[k].delta)
         ELSE SumDeltas(log, mode, key, k - 1)

\* C17: compute_delta returns alpha x (r + gamma x maxNext - q), and the
\* delta game_step queues for an acting ant is compute_delta applied to
\* the ant's current Q at the chosen action, its reward, its max_next_q
\* and the alpha and gamma of the configuration.
C17_QueuedDelta ==
    [][last_op'.op = "game_step" =>
          LET log == last_op'.log
              math == QLearningMath_new(config.alpha, config.gamma, config.epsilon)
              pending == PendingAfterLoop(Live, config, DrawsOf(log))
              map(mode) == IF mode = "FINDING" THEN pheromones_food ELSE pheromones_nest
          IN  /\ \A k \in 1..Len(log) :
                    /\ log[k].q_curr = get_q(map(log[k].mode), log[k].x, log[k].y,
                                             log[k].action)
                    /\ log[k].delta = compute_delta(math, log[k].q_curr, log[k].reward,
                                                    log[k].max_next_q)
                    /\ log[k].delta =
                          FMul(config.alpha,
                               FSub(FAdd(log[k].reward,
                                         FMul(config.gamma, log[k].max_next_q)),
                                    log[k].q_curr))
              /\ \A key \in DOMAIN pending[1] :
                    key[3] # to_usize("Stay") =>
                        pending[1][key] = SumDeltas(log, "FINDING", key, Len(log))
              /\ \A key \in DOMAIN pending[2] :
                    key[3] # to_usize("Stay") =>
                        pending[2][key] = SumDeltas(log, "RETURNING", key, Len(log))]_vars

\* an ant has acted on a non-zero Q-value towards a cell with a non-zero
\* maximum, and its delta was queued
C17_Witness ==
    /\ last_op.op = "game_step"
    /\ \E k \in 1..Len(last_op.log) :
          /\ last_op.log[k].q_curr # 0
          /\ last_op.log[k].max_next_q # 0
          /\ last_op.log[k].delta # 0

\* the tile of g whose position is (x, y)
TileAt(g, x, y) ==
    CHOOSE t \in {g.tiles[idx] : idx \in DOMAIN g.tiles} : t.position = <<x, y>>

\* C18: for any grid and any coordinate with x >= width or y >= height,
\* is_walkable, is_lethal, has_food and is_nest all return false; for a
\* coordinate on the grid they return the tile's own answer: walkable iff
\* not Wall, lethal iff DeathZone, has_food iff FoodSource with amount > 0,
\* nest iff Nest.
C18_GridQueries ==
    (probe.fn = "grid_query" /\ probe.done) =>
        IF probe.x >= probe.grid.width \/ probe.y >= probe.grid.height
        THEN ~probe.is_walkable /\ ~probe.is_lethal /\ ~probe.has_food /\ ~probe.is_nest
        ELSE LET t == TileAt(probe.grid, probe.x, probe.y)
             IN  /\ probe.is_walkable = (t.tile_type # "Wall")
                 /\ probe.is_lethal = (t.tile_type = "DeathZone")
                 /\ probe.has_food = (t.tile_type = "FoodSource" /\ t.amount > 0)
                 /\ probe.is_nest = (t.tile_type = "Nest")

\* a query one column past the right edge of a row that holds a tile has
\* answered false four times
C18_Witness ==
    /\ probe.fn = "grid_query"
    /\ probe.done
    /\ probe.x = probe.grid.width
    /\ probe.y < probe.grid.height
    /\ probe.grid.width * probe.grid.height > probe.y * probe.grid.width + probe.x
    /\ ~probe.is_walkable
    /\ ~probe.is_lethal
    /\ ~probe.has_food
    /\ ~probe.is_nest

\* the pickups a tick made on the tile at position pos
PickupsOn(log, pos) ==
    {k \in 1..Len(log) : log[k].event = "pickup" /\ <<log[k].nx, log[k].ny>> = pos}

\* the sum of the charges the ants of colony a deposited in a tick, over
\* the log entries from position k on
RECURSIVE SumDeposits(_, _, _)
SumDeposits(log, a, k) ==
    IF k > Len(log) THEN 0
    ELSE (IF log[k].event = "deposit" THEN a[log[k].ant].current_charge ELSE 0)
         + SumDeposits(log, a, k + 1)

\* C19: across any game_step every FoodSource amount is non-increasing,
\* never goes below 0 and drops by exactly the number of pickups made on
\* that tile in the tick; the nest's stored_food is non-decreasing and
\* rises by exactly the sum of the charges deposited in the tick; no tile
\* changes variant or position.
C19_TileContents ==
    [][last_op'.op = "game_step" =>
          LET log == last_op'.log
              nest_pos == get_nest_position(grid)
              deposited == SumDeposits(log, AfterSpawn(ants, grid, config), 1)
          IN  /\ grid'.width = grid.width
              /\ grid'.height = grid.height
              /\ DOMAIN grid'.tiles = DOMAIN grid.tiles
              /\ \A idx \in DOMAIN grid.tiles :
                    LET old == grid.tiles[idx]
                        new == grid'.tiles[idx]
                    IN  /\ new.tile_type = old.tile_type
                        /\ new.position = old.position
                        /\ new.amount >= 0
                        /\ new.amount <= old.amount
                        /\ new.stored_food >= old.stored_food
                        /\ new.amount = old.amount
                              - (IF old.tile_type = "FoodSource"
                                 THEN Cardinality(PickupsOn(log, old.position))
                                 ELSE 0)
                        /\ new.stored_food = old.stored_food
                              + (IF old.position = nest_pos /\ old.tile_type = "Nest"
                                 THEN deposited ELSE 0)
              /\ deposited >= 0
              /\ nest_pos = None => deposited = 0]_vars

\* a tick took two units from one FoodSource, and a later tick brought a
\* charge to the nest
C19_Witness ==
    /\ last_op.op = "game_step"
    /\ current_tick_index > 1
    /\ \E k \in 1..Len(last_op.log) : last_op.log[k].event = "deposit"
    /\ \E idx \in DOMAIN grid.tiles :
          /\ grid.tiles[idx].tile_type = "Nest"
          /\ grid.tiles[idx].stored_food > 1
          /\ lived[current_tick_index].grid.tiles[idx].stored_food = 0
    /\ \E idx \in DOMAIN grid.tiles :
          /\ lived[1].grid.tiles[idx].tile_type = "FoodSource"
          /\ lived[2].grid.tiles[idx].amount = lived[1].grid.tiles[idx].amount - 2

\* C20: an ant with scope > 0 (EXPLORER, FIGHTER) never enters a lethal
\* tile: no game_step sets its position to a DeathZone cell or to absent,
\* so once positioned it stays positioned, while it still receives the
\* death-penalty learning update for the refused move.
C20_SightedAntsSurvive ==
    [][last_op'.op = "game_step" =>
          LET log == last_op'.log
              after == AfterSpawn(ants, grid, config)
              math == QLearningMath_new(config.alpha, config.gamma, config.epsilon)
          IN  /\ \A i \in 1..Len(ants) :
                    ants[i].scope > 0 =>
                        /\ after[i].position # None => ants'[i].position # None
                        /\ (ants'[i].position # None /\ ants'[i].position # ants[i].position)
                              => ~Grid_is_lethal(grid', ants'[i].position[1],
                                                 ants'[i].position[2])
              /\ \A k \in 1..Len(log) :
                    (ants[log[k].ant].scope > 0 /\ log[k].is_lethal) =>
                        LET e == log[k]
                            key == <<e.x, e.y, to_usize(e.action)>>
                            old == IF e.mode = "FINDING" THEN pheromones_food
                                   ELSE pheromones_nest
                            new == IF e.mode = "FINDING" THEN pheromones_food'
                                   ELSE pheromones_nest'
                        IN  /\ e.event = "refused"
                            /\ ants'[e.ant].position = Some(e.x, e.y)
                            /\ e.reward = config.reward_death
                            /\ e.delta = compute_delta(math, e.q_curr, config.reward_death, 0)
                            /\ new.data[e.x][e.y][key[3]] =
                                  Evaporate(FAdd(old.data[e.x][e.y][key[3]],
                                                 SumDeltas(log, e.mode, key, Len(log))),
                                            FSub(One, config.pheromone_evaporation))]_vars

\* a FIGHTER has just refused to step into the DeathZone, stays where it
\* was, and the penalty shows in the Q-value of the refused action
C20_Witness ==
    /\ last_op.op = "game_step"
    /\ \E k \in 1..Len(last_op.log) :
          LET e == last_op.log[k]
          IN  /\ ants[e.ant].ant_type = "FIGHTER"
              /\ e.is_lethal
              /\ e.event = "refused"
              /\ ants[e.ant].position = Some(e.x, e.y)
              /\ e.reward = config.reward_death
              /\ pheromones_food.data[e.x][e.y][to_usize(e.action)] < 0 - One

\* the log entries of ant i in a tick: at most one
EntriesOf(log, i) == {k \in 1..Len(log) : log[k].ant = i}

\* the amount the tile at the destination of entry k held when that ant's
\* turn came: the amount at the start of the tick less the pickups made on
\* it by the entries before k; 0 when the destination is no FoodSource
FoodAtTurn(g, log, k) ==
    LET e == log[k]
        t == get_tile(g, e.nx, e.ny)
    IN  IF t = <<>> THEN 0
        ELSE IF t[1].tile_type # "FoodSource" THEN 0
        ELSE t[1].amount
               - Cardinality({j \in PickupsOn(log, <<e.nx, e.ny>>) : j < k})

\* entry k records a move that was carried out: allowed and not lethal
MovedIn(log, k) == log[k].move_allowed /\ ~log[k].is_lethal

\* C21: for an ant positioned at the start of a game_step, its mode goes
\* from FINDING to RETURNING exactly when in that tick it legally moves
\* into a cell whose FoodSource amount is > 0 (its charge then becomes
\* maximal_charge and the amount drops by 1), and from RETURNING to FINDING
\* exactly when it legally moves into a Nest cell (its charge then becomes
\* 0 and stored_food rises by it); otherwise mode and charge are unchanged.
C21_ModeTransitions ==
    [][last_op'.op = "game_step" =>
          LET log == last_op'.log
          IN  \A i \in 1..Len(ants) :
                ants[i].position # None =>
                    LET picks == \E k \in EntriesOf(log, i) :
                                    /\ MovedIn(log, k)
                                    /\ log[k].mode = "FINDING"
                                    /\ FoodAtTurn(grid, log, k) > 0
                        drops == \E k \in EntriesOf(log, i) :
                                    /\ MovedIn(log, k)
                                    /\ log[k].mode = "RETURNING"
                                    /\ Grid_is_nest(grid, log[k].nx, log[k].ny)
                    IN  /\ Cardinality(EntriesOf(log, i)) <= 1
                        /\ \A k \in EntriesOf(log, i) : log[k].mode = ants[i].mode
                        /\ picks <=> (ants[i].mode = "FINDING"
                                        /\ ants'[i].mode = "RETURNING")
                        /\ drops <=> (ants[i].mode = "RETURNING"
                                        /\ ants'[i].mode = "FINDING")
                        /\ picks =>
                              /\ ants'[i].current_charge = ants[i].maximal_charge
                              /\ \E k \in EntriesOf(log, i) :
                                    LET idx == log[k].ny * grid.width + log[k].nx
                                    IN  /\ log[k].event = "pickup"
                                        /\ grid'.tiles[idx].amount =
                                              grid.tiles[idx].amount
                                              - Cardinality(PickupsOn(log, <<log[k].nx,
                                                                            log[k].ny>>))
                        /\ drops =>
                              /\ ants'[i].current_charge = 0
                              /\ \E k \in EntriesOf(log, i) :
                                    LET n == get_nest_position(grid)
                                        idx == n[2] * grid.width + n[1]
                                    IN  /\ log[k].event = "deposit"
                                        /\ grid'.tiles[idx].stored_food =
                                              grid.tiles[idx].stored_food
                                              + SumDeposits(log, ants, 1)
                        /\ (~picks /\ ~drops) =>
                              /\ ants'[i].mode = ants[i].mode
                              /\ ants'[i].current_charge = ants[i].current_charge
                              /\ \A k \in EntriesOf(log, i) :
                                    log[k].event \notin {"pickup", "deposit"}]_vars

\* in one tick an ant took the last unit of a FoodSource and a later ant
\* moved into the emptied cell and stayed FINDING
C21_Witness ==
    /\ last_op.op = "game_step"
    /\ \E k, j \in 1..Len(last_op.log) :
          /\ k < j
          /\ last_op.log[k].event = "pickup"
          /\ ants[last_op.log[k].ant].mode = "RETURNING"
          /\ ants[last_op.log[k].ant].current_charge
                = ants[last_op.log[k].ant].maximal_charge
          /\ last_op.log[j].event = "none"
          /\ last_op.log[j].mode = "FINDING"
          /\ <<last_op.log[j].nx, last_op.log[j].ny>>
                = <<last_op.log[k].nx, last_op.log[k].ny>>
          /\ MovedIn(last_op.log, j)
          /\ ants[last_op.log[j].ant].mode = "FINDING"

\* ant i is positioned with no cooldown left in the state before tick j of
\* the branch: it acts in tick j
ActsIn(i, j) ==
    /\ lived[j].ants[i].position # None
    /\ lived[j].ants[i].cooldown = 0

\* C22: in each game_step a positioned ant with cooldown > 0 only has its
\* cooldown decremented by one (no action chosen, no update queued, its
\* position, mode and charge unchanged); a positioned ant with cooldown 0
\* acts and leaves the tick with cooldown = seconds_for_movement; so
\* between two consecutive acting ticks of a continuously positioned ant
\* there are exactly seconds_for_movement skipped ticks.
C22_Cooldown ==
    /\ [][last_op'.op = "game_step" =>
             LET after == AfterSpawn(ants, grid, config)
                 log == last_op'.log
             IN  \A i \in 1..Len(ants) :
                   after[i].position # None =>
                       /\ after[i].cooldown > 0 =>
                             /\ ants'[i] = [after[i] EXCEPT !.cooldown = @ - 1]
                             /\ i \notin ActedIn(log)
                       /\ after[i].cooldown = 0 =>
                             /\ i \in ActedIn(log)
                             /\ ants'[i].cooldown = ants[i].seconds_for_movement]_vars
    /\ [](\A i \in 1..Len(ants) :
            \A j1, j2 \in 1..(Len(lived) - 1) :
                (/\ j1 < j2
                 /\ ActsIn(i, j1)
                 /\ ActsIn(i, j2)
                 /\ \A m \in j1..j2 : lived[m].ants[i].position # None
                 /\ \A m \in (j1 + 1)..(j2 - 1) : ~ActsIn(i, m))
                    => j2 - j1 - 1 = ants[i].seconds_for_movement)

\* an ant that stayed on the map has just acted for the second time, its
\* cooldown having run down in between
C22_Witness ==
    /\ last_op.op = "game_step"
    /\ current_tick_index = Len(lived) - 1
    /\ \E i \in 1..Len(ants) :
          \E j \in 1..(current_tick_index - 1) :
              /\ ActsIn(i, j)
              /\ ActsIn(i, current_tick_index)
              /\ \A m \in j..(current_tick_index + 1) : lived[m].ants[i].position # None
              /\ i \in ActedIn(last_op.log)
              /\ ants[i].cooldown = ants[i].seconds_for_movement
              /\ lived[current_tick_index - 1].ants[i].cooldown = 1

\* C23: after any sequence of game_step and restore_snapshot calls,
\* 0 <= current_tick_index < history length, and the live grid, ants and
\* both pheromone maps equal the snapshot stored at
\* history[current_tick_index].
C23_LiveIsCurrentSnapshot ==
    /\ 0 <= current_tick_index
    /\ current_tick_index < Len(history)
    /\ grid = history[current_tick_index + 1].grid
    /\ ants = history[current_tick_index + 1].ants
    /\ pheromones_food = history[current_tick_index + 1].pheromones_food
    /\ pheromones_nest = history[current_tick_index + 1].pheromones_nest

\* a restore has moved the live state back to an earlier snapshot that
\* differs from the tail of the history
C23_Witness ==
    /\ last_op.op = "restore_snapshot"
    /\ last_op.index = current_tick_index
    /\ 0 < current_tick_index
    /\ current_tick_index + 1 < Len(history)
    /\ Live = history[current_tick_index + 1]
    /\ Live # history[Len(history)]
    /\ Live # history[1]

\* the provisional density after the first k entries of the log of a tick,
\* from the density d counted at the start of the tick: an ant that is
\* allowed leaves its origin cell, and enters the destination unless it dies
DensityAfter(d, log, k, width) ==
    LET Apply[n \in 0..k] ==
            IF n = 0 THEN d
            ELSE LET e == log[n]
                     prev == Apply[n - 1]
                     old_idx == e.y * width + e.x
                     new_idx == e.ny * width + e.nx
                     left == IF e.move_allowed /\ old_idx \in DOMAIN prev
                             THEN [prev EXCEPT ![old_idx] = SaturatingSub(@, 1)]
                             ELSE prev
                 IN  IF e.move_allowed /\ ~e.is_lethal /\ new_idx \in DOMAIN left
                     THEN [left EXCEPT ![new_idx] = @ + 1]
                     ELSE left
    IN  Apply[k]

\* entries k1 < k2 of the log of a tick over grid g and ants a: two ants
\* choose the same in-bounds cell, which holds MaxAntsPerCell - 1 ants when
\* the earlier is processed, and no ant leaves that cell between them
Contested(g, a, log, k1, k2) ==
    /\ k1 < k2
    /\ ~log[k1].is_out
    /\ <<log[k1].nx, log[k1].ny>> = <<log[k2].nx, log[k2].ny>>
    /\ DensityAt(DensityAfter(compute_ant_density(g, a), log, k1 - 1, g.width),
                 log[k1].ny * g.width + log[k1].nx) = MaxAntsPerCell - 1
    /\ \A m \in (k1 + 1)..(k2 - 1) :
          ~(log[m].move_allowed /\ <<log[m].x, log[m].y>> = <<log[k1].nx, log[k1].ny>>)

\* the earlier ant has moved into the cell and the later one was refused
\* and is where it was
FirstWins(log, k1, k2, after) ==
    /\ log[k1].move_allowed
    /\ ~log[k1].is_lethal
    /\ after[log[k1].ant].position = Some(log[k1].nx, log[k1].ny)
    /\ ~log[k2].move_allowed
    /\ log[k2].event = "refused"
    /\ after[log[k2].ant].position = Some(log[k2].x, log[k2].y)

\* C24 as claimed: when two ants eligible in the same tick choose the same
\* destination cell whose provisional density is 9 when the earlier-indexed
\* one is processed, and no ant leaves that cell between them, the earlier
\* ant moves in and the later ant is refused and keeps its position.
C24_ContestAsClaimed ==
    [][last_op'.op = "game_step" =>
          \A k1, k2 \in 1..Len(last_op'.log) :
              Contested(grid, ants, last_op'.log, k1, k2)
                  => FirstWins(last_op'.log, k1, k2, ants')]_vars

\* C24 (amended): the same, for a destination that is walkable, not lethal
\* and not the cell the earlier ant already stands on.
C24_ContestAmended ==
    [][last_op'.op = "game_step" =>
          \A k1, k2 \in 1..Len(last_op'.log) :
              (/\ Contested(grid, ants, last_op'.log, k1, k2)
               /\ Grid_is_walkable(grid, last_op'.log[k1].nx, last_op'.log[k1].ny)
               /\ ~last_op'.log[k1].is_lethal
               /\ <<last_op'.log[k1].x, last_op'.log[k1].y>>
                      # <<last_op'.log[k1].nx, last_op'.log[k1].ny>>)
                  => FirstWins(last_op'.log, k1, k2, ants')]_vars

\* two ants on one cell went for a neighbouring cell holding
\* MaxAntsPerCell - 1 ants: the first is in, the second was refused
C24_Witness ==
    /\ last_op.op = "game_step"
    /\ current_tick_index = Len(lived) - 1
    /\ current_tick_index >= 1
    /\ LET before == lived[current_tick_index]
       IN  \E k1, k2 \in 1..Len(last_op.log) :
              /\ Contested(before.grid, before.ants, last_op.log, k1, k2)
              /\ <<last_op.log[k1].x, last_op.log[k1].y>>
                     # <<last_op.log[k1].nx, last_op.log[k1].ny>>
              /\ FirstWins(last_op.log, k1, k2, ants)
              /\ DensityAt(last_op.density,
                           last_op.log[k1].ny * grid.width + last_op.log[k1].nx)
                     = MaxAntsPerCell

\* C25: when an eligible ant with scope 0 chooses an in-bounds lethal
\* destination whose provisional density is below 10, its position becomes
\* absent, the density of its origin cell is decremented, no pickup or
\* deposit is resolved, its mode and charge are left as they were, and the
\* queued delta uses the death reward with max_next_q = 0.
C25_DeathOnLethalTile ==
    [][last_op'.op = "game_step" =>
          LET log == last_op'.log
              after == AfterSpawn(ants, grid, config)
              math == QLearningMath_new(config.alpha, config.gamma, config.epsilon)
              d0 == compute_ant_density(grid, ants)
          IN  /\ last_op'.density = DensityAfter(d0, log, Len(log), grid.width)
              /\ \A k \in 1..Len(log) :
                    LET e == log[k]
                        before == DensityAfter(d0, log, k - 1, grid.width)
                    IN  (/\ after[e.ant].scope = 0
                         /\ ~e.is_out
                         /\ Grid_is_lethal(grid, e.nx, e.ny)
                         /\ DensityAt(before, e.ny * grid.width + e.nx) < MaxAntsPerCell)
                            => /\ ants'[e.ant].position = None
                               /\ e.event = "death"
                               /\ DensityAt(DensityAfter(d0, log, k, grid.width),
                                            e.y * grid.width + e.x)
                                      = SaturatingSub(DensityAt(before, e.y * grid.width + e.x), 1)
                               /\ DensityAt(DensityAfter(d0, log, k, grid.width),
                                            e.ny * grid.width + e.nx)
                                      = DensityAt(before, e.ny * grid.width + e.nx)
                               /\ ants'[e.ant].mode = after[e.ant].mode
                               /\ ants'[e.ant].current_charge = after[e.ant].current_charge
                               /\ e.reward = config.reward_death
                               /\ e.max_next_q = 0
                               /\ e.delta = compute_delta(math, e.q_curr, config.reward_death, 0)]_vars

\* a PICKER standing on a counted cell has walked onto the DeathZone and is
\* off the map, its origin cell one ant lighter
C25_Witness ==
    /\ last_op.op = "game_step"
    /\ current_tick_index = Len(lived) - 1
    /\ current_tick_index >= 1
    /\ \E k \in 1..Len(last_op.log) :
          LET e == last_op.log[k]
              before == lived[current_tick_index]
          IN  /\ ants[e.ant].scope = 0
              /\ Grid_is_lethal(grid, e.nx, e.ny)
              /\ e.event = "death"
              /\ ants[e.ant].position = None
              /\ before.ants[e.ant].position = Some(e.x, e.y)
              /\ DensityAt(last_op.density, e.y * grid.width + e.x)
                     < DensityAt(compute_ant_density(before.grid, before.ants),
                                 e.y * grid.width + e.x)

\* the tile variant at the destination of a log entry, "None" off the grid
DestinationType(g, e) ==
    IF e.nx >= g.width \/ e.ny >= g.height THEN "None"
    ELSE TileAt(g, e.nx, e.ny).tile_type

\* C26: for every mode and destination, the reward used in an ant's update
\* is reward_death if the destination is lethal, else reward_food if the ant
\* is FINDING and the destination has food > 0, else reward_nest if the ant
\* is RETURNING and the destination is a Nest, else reward_default (every
\* out-of-bounds destination included); it does not depend on whether the
\* move is legal.
C26_Reward ==
    [][last_op'.op = "game_step" =>
          \A k \in 1..Len(last_op'.log) :
              LET e == last_op'.log[k]
                  type == DestinationType(grid, e)
              IN  e.reward =
                      IF type = "DeathZone" THEN config.reward_death
                      ELSE IF e.mode = "FINDING" /\ FoodAtTurn(grid, last_op'.log, k) > 0
                           THEN config.reward_food
                      ELSE IF e.mode = "RETURNING" /\ type = "Nest"
                           THEN config.reward_nest
                      ELSE config.reward_default]_vars

\* in one tick a refused ant was charged the death reward for the lethal
\* tile it was kept off, and an ant heading for food got the food reward;
\* in the same run an ant heading off the grid got the default reward
C26_Witness ==
    /\ last_op.op = "game_step"
    /\ \E k1, k2 \in 1..Len(last_op.log) :
          /\ ~last_op.log[k1].move_allowed
          /\ last_op.log[k1].event = "refused"
          /\ DestinationType(grid, last_op.log[k1]) = "DeathZone"
          /\ last_op.log[k1].reward = config.reward_death
          /\ last_op.log[k2].mode = "FINDING"
          /\ last_op.log[k2].reward = config.reward_food
    /\ config.reward_death # config.reward_default
    /\ config.reward_food # config.reward_default

\* the keys under which the entries of a log in the given mode queue their
\* deltas: origin cell and chosen action
KeysOf(log, mode) ==
    {<<log[k].x, log[k].y, to_usize(log[k].action)>> :
        k \in {j \in 1..Len(log) : log[j].mode = mode}}

\* C27: every ant that acts in a tick queues exactly one Bellman delta,
\* keyed by its origin cell and chosen action, into the food map if its
\* mode at the start of its turn is FINDING and into the nest map if
\* RETURNING, whether or not its move is legal; an ant whose move is
\* illegal keeps its position, mode and charge and changes no tile.
C27_OneDeltaPerActingAnt ==
    [][last_op'.op = "game_step" =>
          LET log == last_op'.log
              after == AfterSpawn(ants, grid, config)
              pending == PendingAfterLoop(Live, config, DrawsOf(log))
              moving == {to_usize(moving_actions[n]) : n \in 1..Len(moving_actions)}
          IN  /\ ActedIn(log) = Acting(after)
              /\ \A i \in Acting(after) : Cardinality(EntriesOf(log, i)) = 1
              /\ \A k \in 1..Len(log) :
                    /\ after[log[k].ant].position = Some(log[k].x, log[k].y)
                    /\ after[log[k].ant].mode = log[k].mode
              /\ KeysOf(log, "FINDING") \subseteq DOMAIN pending[1]
              /\ KeysOf(log, "RETURNING") \subseteq DOMAIN pending[2]
              /\ \A key \in DOMAIN pending[1] :
                    key[3] \in moving =>
                        /\ key \in KeysOf(log, "FINDING")
                        /\ pending[1][key] = SumDeltas(log, "FINDING", key, Len(log))
              /\ \A key \in DOMAIN pending[2] :
                    key[3] \in moving =>
                        /\ key \in KeysOf(log, "RETURNING")
                        /\ pending[2][key] = SumDeltas(log, "RETURNING", key, Len(log))
              /\ \A k \in 1..Len(log) :
                    ~log[k].move_allowed =>
                        /\ log[k].event = "refused"
                        /\ ants'[log[k].ant].position = after[log[k].ant].position
                        /\ ants'[log[k].ant].mode = after[log[k].ant].mode
                        /\ ants'[log[k].ant].current_charge = after[log[k].ant].current_charge
              /\ \A idx \in DOMAIN grid.tiles :
                    (\A k \in 1..Len(log) :
                        MovedIn(log, k) =>
                            /\ <<log[k].nx, log[k].ny>> # grid.tiles[idx].position
                            /\ log[k].event = "deposit" =>
                                  get_nest_position(grid) # grid.tiles[idx].position)
                        => grid'.tiles[idx] = grid.tiles[idx]]_vars

\* a RETURNING ant was refused its move and is where it was, with its delta
\* queued in the nest map under its origin cell and chosen action
C27_Witness ==
    /\ last_op.op = "game_step"
    /\ current_tick_index = Len(lived) - 1
    /\ current_tick_index >= 1
    /\ \E k \in 1..Len(last_op.log) :
          LET e == last_op.log[k]
              pending == PendingAfterLoop(lived[current_tick_index], config,
                                          DrawsOf(last_op.log))
              key == <<e.x, e.y, to_usize(e.action)>>
          IN  /\ e.mode = "RETURNING"
              /\ ~e.move_allowed
              /\ ants[e.ant].position = Some(e.x, e.y)
              /\ key \in DOMAIN pending[2]
              /\ key \notin DOMAIN pending[1]
              /\ pending[2][key] = e.delta
              /\ e.delta # 0

\* C28: with epsilon = 0 and the configuration unchanged,
\* restore_snapshot(k) followed by game_step() produces a new snapshot at
\* index k+1 equal to the snapshot that was at index k+1 before the restore.
C28_ReplayReproduces ==
    [][(/\ last_op.op = "restore_snapshot"
        /\ last_op.index = current_tick_index
        /\ current_tick_index + 1 < Len(history)
        /\ config.epsilon = 0
        /\ last_op'.op = "game_step")
          => /\ current_tick_index' = current_tick_index + 1
             /\ Len(history') = current_tick_index + 2
             /\ history'[current_tick_index + 2] = history[current_tick_index + 2]
             /\ Live' = history[current_tick_index + 2]]_vars

\* a tick that moved ants and changed Q-values was replayed from an earlier
\* snapshot, cutting off a longer recorded future
C28_Witness ==
    /\ last_op.op = "game_step"
    /\ last_op.truncated
    /\ config.epsilon = 0
    /\ current_tick_index >= 1
    /\ Len(lived) = current_tick_index + 1
    /\ Len(history) = current_tick_index + 1
    /\ history[current_tick_index + 1].ants # history[current_tick_index].ants
    /\ history[current_tick_index + 1].pheromones_food
           # history[current_tick_index].pheromones_food
    /\ \E k \in 1..Len(last_op.log) : last_op.log[k].move_allowed

\* the manager was built with every ant of a non-empty colony unpositioned
BuiltUnpositioned ==
    /\ Len(lived[1].ants) >= 1
    /\ \A i \in 1..Len(lived[1].ants) : lived[1].ants[i].position = None

\* C29: in every state reachable by game_step from a manager built with all
\* ants unpositioned, each ant satisfies: mode FINDING implies
\* current_charge = 0, and mode RETURNING implies current_charge =
\* maximal_charge; also for ants that were removed by a lethal tile and
\* later spawned again.
C29_ChargeMatchesMode ==
    BuiltUnpositioned =>
        \A i \in 1..Len(ants) :
            /\ ants[i].mode = "FINDING" => ants[i].current_charge = 0
            /\ ants[i].mode = "RETURNING" => ants[i].current_charge = ants[i].maximal_charge

\* C30 as claimed: once is_game_finished() is true it stays true after
\* every further game_step(): neither exhausted food nor a colony whose ants
\* are all absent can become unfinished again by stepping.
C30_FinishedAsClaimed ==
    [][(last_op'.op = "game_step" /\ is_game_finished(grid, ants))
          => is_game_finished(grid', ants')]_vars

\* C30 (amended): once is_game_finished() is true it stays true after every
\* further game_step() that begins with no food remaining or that spawns
\* no ant: exhausted food never becomes unfinished again by stepping, and
\* a colony whose ants are all absent stays finished after every step that
\* spawns none of them.
C30_FinishedAmended ==
    [][(/\ last_op'.op = "game_step"
        /\ is_game_finished(grid, ants)
        /\ \/ \A idx \in DOMAIN grid.tiles : grid.tiles[idx].amount = 0
           \/ AfterSpawn(ants, grid, config) = ants)
          => is_game_finished(grid', ants')]_vars

\* a step taken after the food ran out, by a colony with an ant on the map
\* that acted in it, left the game finished
C30_Witness ==
    /\ last_op.op = "game_step"
    /\ current_tick_index = Len(lived) - 1
    /\ current_tick_index >= 2
    /\ is_game_finished(lived[current_tick_index].grid, lived[current_tick_index].ants)
    /\ \A idx \in DOMAIN grid.tiles : lived[current_tick_index].grid.tiles[idx].amount = 0
    /\ \E idx \in DOMAIN grid.tiles : lived[1].grid.tiles[idx].amount > 0
    /\ \E i \in 1..Len(ants) : ants[i].position # None
    /\ Len(last_op.log) >= 1
    /\ is_game_finished(grid, ants)

\* the manager was built with every ant unpositioned or on a Nest tile
BuiltOnNest ==
    \A i \in 1..Len(lived[1].ants) :
        \/ lived[1].ants[i].position = None
        \/ Grid_is_nest(lived[1].grid, lived[1].ants[i].position[1],
                        lived[1].ants[i].position[2])

\* C31: in every state reachable by game_step from a manager whose ants
\* start unpositioned or on the nest, every positioned ant is on an
\* in-bounds cell that is walkable and not lethal.
C31_AntsOnSafeCells ==
    BuiltOnNest =>
        \A i \in 1..Len(ants) :
            ants[i].position # None =>
                /\ ants[i].position[1] < grid.width
                /\ ants[i].position[2] < grid.height
                /\ TileAt(grid, ants[i].position[1], ants[i].position[2]).tile_type
                       \notin {"Wall", "DeathZone"}

\* an ant that left the nest was refused a move into a Wall and is still on
\* a safe cell off the nest
C31_Witness ==
    /\ BuiltOnNest
    /\ last_op.op = "game_step"
    /\ \E k \in 1..Len(last_op.log) :
          LET e == last_op.log[k]
          IN  /\ ~e.is_out
              /\ TileAt(grid, e.nx, e.ny).tile_type = "Wall"
              /\ ~e.move_allowed
              /\ ants[e.ant].position = Some(e.x, e.y)
              /\ ~Grid_is_nest(grid, e.x, e.y)

\* the grid has no Nest tile
Nestless(g) == \A idx \in DOMAIN g.tiles : g.tiles[idx].tile_type # "Nest"

\* C32: game_step never reaches the fatal 'Nest must exist' failure of
\* add_food_to_nest, for any grid including one with no Nest tile or
\* several: a deposit is attempted only when the destination tile is itself
\* a Nest, and on a nestless grid no ant is ever spawned.
C32_NestMustExistNeverFails ==
    [][last_op'.op \in {"game_step", "panic"} =>
          /\ \A k \in 1..Len(last_op'.log) :
                LET e == last_op'.log[k]
                IN  /\ e.event # "panic"
                    /\ e.event = "deposit" =>
                          /\ ~e.is_out
                          /\ TileAt(grid, e.nx, e.ny).tile_type = "Nest"
          /\ Nestless(grid) =>
                /\ AfterSpawn(ants, grid, config) = ants
                /\ \A i \in 1..Len(ants) :
                      ants[i].position = None => ants'[i].position = None]_vars

\* on a grid without a Nest a RETURNING ant has moved to another cell with
\* its charge while an unpositioned ant is still waiting
C32_Witness ==
    /\ last_op.op = "game_step"
    /\ Nestless(grid)
    /\ \E i \in 1..Len(ants) : ants[i].position = None
    /\ \E k \in 1..Len(last_op.log) :
          LET e == last_op.log[k]
          IN  /\ e.mode = "RETURNING"
              /\ MovedIn(last_op.log, k)
              /\ e.event = "none"
              /\ ants[e.ant].current_charge = ants[e.ant].maximal_charge
              /\ ants[e.ant].position = Some(e.nx, e.ny)

\* C33: the provisional per-cell density count saturates at its maximum
\* representable value (255 for the 8-bit counter): computing the density
\* of a cell holding more ants than that value yields the maximum instead
\* of overflowing, wrapping or aborting, and every density decrement
\* saturates at 0.
C33_DensitySaturates ==
    probe.fn = "density" =>
        /\ ~probe.aborted
        /\ probe.density = IF probe.counted < U8Modulus - 1
                           THEN probe.counted ELSE U8Modulus - 1
        /\ probe.done =>
              probe.left = IF probe.density = 0 THEN 0 ELSE probe.density - 1

\* C34: restore_snapshot(k) with k in range changes neither the length nor
\* the contents of the history, so after any sequence of restores with no
\* game_step in between every previously committed snapshot, those after k
\* included, can still be restored (redo), and restore_snapshot(k) applied
\* twice equals applying it once.
C34_RestoreKeepsHistory ==
    [][(last_op'.op = "restore_snapshot" /\ last_op'.index < Len(history)) =>
          /\ Len(history') = Len(history)
          /\ history' = history
          /\ last_op.op = "restore_snapshot" =>
                /\ Live' = history[last_op'.index + 1]
                /\ Live' = lived[last_op'.index + 1]
                /\ current_tick_index' = last_op'.index
                /\ last_op'.index = last_op.index =>
                      UNCHANGED <<grid, ants, pheromones_food, pheromones_nest,
                                  history, current_tick_index>>]_vars

\* after going back, a restore has moved forward again to the last
\* committed snapshot, which differs from the one it left
C34_Witness ==
    /\ last_op.op = "restore_snapshot"
    /\ last_op.forward
    /\ last_op.index = current_tick_index
    /\ current_tick_index = Len(history) - 1
    /\ Len(history) >= 3
    /\ Live = history[Len(history)]
    /\ Live # history[Len(history) - 1]

\* everything queued by the first k log entries of a tick for slot a of
\* cell (x, y) of the map that serves the given mode, added up in the order
\* it was queued: the Bellman delta of each ant in that mode and, on the
\* Stay slot, the boost of reward_food x 0.5 of each entry with the given
\* event resolved on that cell
RECURSIVE QueuedInTick(_, _, _, _, _, _, _, _)
QueuedInTick(log, k, mode, event, x, y, a, cfg) ==
    IF k = 0 THEN 0
    ELSE LET earlier == QueuedInTick(log, k - 1, mode, event, x, y, a, cfg)
             with_delta ==
                 IF log[k].mode = mode
                    /\ <<log[k].x, log[k].y, to_usize(log[k].action)>> = <<x, y, a>>
                 THEN FAdd(earlier, log[k].delta) ELSE earlier
         IN  IF a = to_usize("Stay") /\ log[k].event = event
                /\ <<log[k].nx, log[k].ny>> = <<x, y>>
             THEN FAdd(with_delta, FMul(cfg.reward_food, Half))
             ELSE with_delta

\* map after is map before with what was queued in the tick added once and
\* the evaporation applied, and holds nothing pending
AppliedOnce(before, after, log, mode, event, cfg) ==
    /\ after.pending_updates = EmptyPending
    /\ \A x \in 0..(before.width - 1), y \in 0..(before.height - 1), a \in 0..4 :
          after.data[x][y][a] =
              SnapProduct(FAdd(before.data[x][y][a],
                               QueuedInTick(log, Len(log), mode, event, x, y, a, cfg)),
                          FSub(One, cfg.pheromone_evaporation))

\* C35: every pheromone delta queued during a game_step (Bellman deltas and
\* pickup/deposit boosts) is applied to the table exactly once, at the end
\* of that same tick: after every game_step the pending buffers of both
\* maps are empty, so no queued update is lost, applied twice, or carried
\* into a snapshot or a later tick.
C35_QueuedAppliedOnce ==
    /\ [][last_op'.op = "game_step" =>
             /\ AppliedOnce(pheromones_food, pheromones_food', last_op'.log,
                            "FINDING", "pickup", config)
             /\ AppliedOnce(pheromones_nest, pheromones_nest', last_op'.log,
                            "RETURNING", "deposit", config)]_vars
    /\ [](/\ pheromones_food.pending_updates = EmptyPending
          /\ pheromones_nest.pending_updates = EmptyPending
          /\ \A k \in 1..Len(history) :
                /\ history[k].pheromones_food.pending_updates = EmptyPending
                /\ history[k].pheromones_nest.pending_updates = EmptyPending)

\* a tick in which one ant picked food up and another deposited: the boost
\* and the Bellman delta are both in the tables and nothing is pending
C35_Witness ==
    /\ last_op.op = "game_step"
    /\ pheromones_food.pending_updates = EmptyPending
    /\ pheromones_nest.pending_updates = EmptyPending
    /\ \E k \in 1..Len(last_op.log) :
          LET e == last_op.log[k]
          IN  /\ e.event \in {"pickup", "deposit"}
              /\ e.delta # 0
              /\ IF e.event = "pickup"
                 THEN /\ pheromones_food.data[e.nx][e.ny][to_usize("Stay")] > 0
                      /\ pheromones_food.data[e.x][e.y][to_usize(e.action)] # 0
                 ELSE /\ pheromones_nest.data[e.nx][e.ny][to_usize("Stay")] > 0
                      /\ pheromones_nest.data[e.x][e.y][to_usize(e.action)] # 0
    /\ \E k \in 1..Len(last_op.log) : last_op.log[k].event = "deposit"

\* the larger of y - 1 and 0
Pred(y) == IF y - 1 > 0 THEN y - 1 ELSE 0

\* C36: for any ant position (x, y) and action, get_target_position
\* returns (x, max(y-1,0)) for Up, (x, y+1) for Down, (max(x-1,0), y) for
\* Left, (x+1, y) for Right and (x, y) for Stay; consequently Up on row 0
\* and Left on column 0 target the ant's own cell, which game_step and
\* get_best_action treat as an ordinary in-bounds destination.
C36_TargetPosition ==
    (probe.fn = "get_target_position" /\ probe.done) =>
        LET x == probe.x
            y == probe.y
            own == \/ probe.action = "Up" /\ y = 0
                   \/ probe.action = "Left" /\ x = 0
        IN  /\ probe.action = "Up" => probe.result = <<x, Pred(y)>>
            /\ probe.action = "Down" => probe.result = <<x, y + 1>>
            /\ probe.action = "Left" => probe.result = <<Pred(x), y>>
            /\ probe.action = "Right" => probe.result = <<x + 1, y>>
            /\ probe.action = "Stay" => probe.result = <<x, y>>
            /\ <<probe.entry.nx, probe.entry.ny>> = probe.result
            /\ own => /\ probe.result = <<x, y>>
                      /\ ~probe.entry.is_out
                      /\ probe.entry.move_allowed
                      /\ probe.entry.event = "none"
            /\ probe.best = "Up"
            /\ probe.sideways = "Left"

\* Left asked of an ant in the corner (0, 0): its own cell is the
\* destination, the move is carried out, and both Up and Left are the best
\* actions of their tables there
C36_Witness ==
    /\ probe.fn = "get_target_position"
    /\ probe.done
    /\ probe.x = 0
    /\ probe.y = 0
    /\ probe.action = "Left"
    /\ probe.result = <<0, 0>>
    /\ probe.entry.move_allowed
    /\ probe.best = "Up"
    /\ probe.sideways = "Left"

\* the number of tiles of a type in a vector of tiles
CountType(tiles, tile_type) ==
    Cardinality({idx \in DOMAIN tiles : tiles[idx].tile_type = tile_type})

\* C37: in every grid new_random builds there is exactly one Nest tile; each
\* category holds at most the requested number of items; a place_items call
\* has placed at most its count and used at most 100 x count attempts, every
\* iteration using one; and no attempt changes a tile that is not Default
C37_RandomGrid ==
    /\ [](probe.fn = "new_random" =>
            /\ CountType(probe.tiles, "Nest") = 1
            /\ probe.tiles[probe.nest_idx].tile_type = "Nest"
            /\ \A k \in 1..Len(ItemTypes) :
                  CountType(probe.tiles, ItemTypes[k]) <= probe.counts[k]
            /\ probe.call <= Len(ItemTypes) =>
                  /\ probe.placed <= probe.counts[probe.call]
                  /\ probe.placed = CountType(probe.tiles, ItemTypes[probe.call])
                  /\ probe.attempts <= probe.counts[probe.call] * AttemptsPerItem)
    /\ [][probe.fn = "new_random" =>
            /\ \A idx \in DOMAIN probe.tiles :
                  probe.tiles[idx].tile_type # "Default" =>
                      probe'.tiles[idx] = probe.tiles[idx]
            /\ probe'.call = probe.call => probe'.attempts = probe.attempts + 1]_vars

\* new_random has finished a grid with room for a DeathZone: one
\* FoodSource and one DeathZone are placed and Default cells remain
C37_Witness ==
    /\ probe.fn = "new_random"
    /\ probe.call > Len(ItemTypes)
    /\ CountType(probe.tiles, "DeathZone") = 1
    /\ CountType(probe.tiles, "FoodSource") = 1
    /\ CountType(probe.tiles, "Default") > 0

\* C38: in the custom-map flow, restore_snapshot(0) on the game screen
\* brings back the state in which the game screen opened, the generated
\* ants at the nest on the edited grid
C38_RestoreZeroReopens ==
    [][(/\ probe.fn = "interface"
        /\ probe.state = "Game"
        /\ probe.custom
        /\ last_op'.op = "restore_snapshot"
        /\ last_op'.index = 0)
       => /\ ants' = probe.opened.ants
          /\ grid' = probe.opened.grid]_vars

\* the number of cells of an editor whose tile is Nest
CountNests(ed) == Cardinality({idx \in DOMAIN ed.tiles : ed.tiles[idx] = "Nest"})

\* C39: after any sequence of set_tile, fill_all and clear calls nest_count
\* is the number of cells whose editor tile is Nest, so whenever is_valid
\* returns true to_tiles yields exactly one Nest tile and at least one
\* FoodSource tile
C39_NestCountExact ==
    probe.fn = "map_editor" =>
        /\ probe.nest_count = CountNests(probe)
        /\ is_valid(probe) =>
              /\ CountType(to_tiles(probe), "Nest") = 1
              /\ CountType(to_tiles(probe), "FoodSource") >= 1

====
